---- MODULE Spec2Model ----
(***************************************************************************)
(* WAReminder: the reminder lifecycle engine of the browser extension.     *)
(* The background service worker owns chrome.storage.local (the reminder   *)
(* collection and the plan record) and chrome.alarms.  Every handler is an *)
(* async function: each await on chrome.storage / chrome.alarms /          *)
(* chrome.notifications is a suspension point, so one action below is one   *)
(* round trip to the external facility together with the synchronous code  *)
(* that follows it up to the next await.                                   *)
(* The clock counts days (Date.now() scaled), so that the 30 day retention *)
(* window is reachable.                                                    *)
(***************************************************************************)
EXTENDS Integers, Sequences, FiniteSets, TLC

\* ---------------------------------------------------------------- bounds
MaxInit == 2
MaxCreates == 2
MaxInFlight == 2
MaxMessages == 2
BootMessages == 1
MaxTicks == 1
TightLimit == 1
ReminderJsonBytes == 3200000

\* ------------------------------------------------------------- constants
FREE_ACTIVE_REMINDER_LIMIT == 5
PAID_ACTIVE_REMINDER_LIMIT == -1
COMPLETED_RETENTION_DAYS == 30
MAX_BYTES == 10485760
WARNING_THRESHOLD_PERCENT == 90
PENDING == "pending"
COMPLETED == "completed"
NULL == -1

DEFAULT_PLAN == [planType |-> "free", activeReminderLimit |-> FREE_ACTIVE_REMINDER_LIMIT]
NoPlan == [planType |-> "", activeReminderLimit |-> 0]

Slots == 1..MaxInFlight
MaxIds == MaxInit + MaxCreates
Ids == 1..MaxIds
\* the clock when the model starts: two days after a retention window
Now0 == COMPLETED_RETENTION_DAYS + 2
Tasks == {"startup", "onInstalled"}

VARIABLES
  store,          \* chrome.storage.local["reminders"]: the persisted array
  persisted,      \* chrome.storage.local has a value under "reminders"
  plan,           \* chrome.storage.local["userPlan"], NoPlan when unset
  alarms,         \* chrome.alarms: reminder id -> when, for the "reminder-<id>" names
  notifications,  \* chrome.notifications currently shown, by reminder id
  badge,          \* text of the action badge
  now,            \* Date.now()
  nextId,         \* number of ids generateId has handed out
  running,        \* the service worker process is alive
  ops,            \* in-flight message / alarm handlers of the service worker
  task,           \* the startup IIFE and the onInstalled listener
  msgs,           \* number of messages the UI contexts will still send
  replies,        \* number of sendResponse calls made so far
  resp,           \* the response passed to the latest sendResponse call
  orphans         \* reminders pending and without a wake-up ever since the process started

vars == <<store, persisted, plan, alarms, notifications, badge, now, nextId, running,
          ops, task, msgs, replies, resp, orphans>>

\* ------------------------------------------------------- pure helpers
NoReminder ==
  [id |-> 0, chatId |-> "", chatName |-> "", scheduledTime |-> 0,
   createdAt |-> 0, status |-> "", completedAt |-> NULL]

\* { reminders, pendingCount, planLimit, planType } before getAllReminders fills it
NoResult == [reminders |-> <<>>, pendingCount |-> 0, planLimit |-> 0, planType |-> ""]

IdleOp ==
  [kind |-> "idle", pc |-> "idle", rid |-> 0, payload |-> NoReminder,
   rem |-> NoReminder, snap |-> <<>>, err |-> "", msg |-> "", seen |-> 0,
   result |-> NoResult]

\* { success, data?, error? }: data names the operation whose result it carries
NoResponse == [success |-> FALSE, data |-> "", error |-> ""]

IdleTask ==
  [pc |-> "idle", snap |-> <<>>, names |-> {}, todo |-> <<>>,
   registered |-> {}, scanned |-> {}, dispatched |-> {}, err |-> ""]

Range(s) == {s[i] : i \in 1..Len(s)}

IdsOf(rs) == {rs[i].id : i \in 1..Len(rs)}

\* reminders.findIndex((r) => r.id === reminderId), 0 when -1
FindIndex(rs, id) ==
  IF \E i \in 1..Len(rs) : rs[i].id = id
  THEN CHOOSE i \in 1..Len(rs) : rs[i].id = id /\ \A j \in 1..(i-1) : rs[j].id # id
  ELSE 0

IsPending(r) == r.status = PENDING

PendingCount(rs) == Cardinality({i \in 1..Len(rs) : rs[i].status = PENDING})

PendingIn(rs, id) == FindIndex(rs, id) # 0 /\ rs[FindIndex(rs, id)].status = PENDING

\* reminders.splice(index, 1)
Splice(rs, i) == SubSeq(rs, 1, i-1) \o SubSeq(rs, i+1, Len(rs))

\* StorageService.getUserPlan: the default free plan when unset
getUserPlan(p) == IF p = NoPlan THEN DEFAULT_PLAN ELSE p

\* canCreateReminder that admits while the pending count is at most the limit
canCreateReminder_OffByOne(p, rs) ==
  \/ getUserPlan(p).activeReminderLimit = PAID_ACTIVE_REMINDER_LIMIT
  \/ PendingCount(rs) <= getUserPlan(p).activeReminderLimit

\* PlanService.canCreateReminder
canCreateReminder(p, rs) ==
  \/ getUserPlan(p).activeReminderLimit = PAID_ACTIVE_REMINDER_LIMIT
  \/ PendingCount(rs) < getUserPlan(p).activeReminderLimit

\* getPlanStatus that counts every stored reminder, completed ones included
getPlanStatus_CountsAll(p, rs) ==
  [planType |-> getUserPlan(p).planType,
   activeReminderLimit |-> getUserPlan(p).activeReminderLimit,
   currentPendingCount |-> Len(rs),
   canCreateReminder |->
     \/ getUserPlan(p).activeReminderLimit = PAID_ACTIVE_REMINDER_LIMIT
     \/ Len(rs) < getUserPlan(p).activeReminderLimit]

\* PlanService.getPlanStatus
getPlanStatus(p, rs) ==
  [planType |-> getUserPlan(p).planType,
   activeReminderLimit |-> getUserPlan(p).activeReminderLimit,
   currentPendingCount |-> PendingCount(rs),
   canCreateReminder |->
     \/ getUserPlan(p).activeReminderLimit = PAID_ACTIVE_REMINDER_LIMIT
     \/ PendingCount(rs) < getUserPlan(p).activeReminderLimit]

\* the place of r in a list sorted by scheduledTime: after every element
\* that does not compare greater (Array.prototype.sort is stable)
RECURSIVE Insert(_, _)
Insert(sorted, r) ==
  IF sorted = <<>> THEN <<r>>
  ELSE IF Head(sorted).scheduledTime - r.scheduledTime <= 0
       THEN <<Head(sorted)>> \o Insert(Tail(sorted), r)
       ELSE <<r>> \o sorted

\* reminders.sort((a, b) => a.scheduledTime - b.scheduledTime)
RECURSIVE SortByScheduledTime(_)
SortByScheduledTime(rs) ==
  IF rs = <<>> THEN <<>>
  ELSE Insert(SortByScheduledTime(SubSeq(rs, 1, Len(rs) - 1)), rs[Len(rs)])

\* getAllReminders that reports the size of the collection as pendingCount
getAllReminders_CountsAll(p, rs) ==
  [reminders |-> SortByScheduledTime(rs),
   pendingCount |-> Len(rs),
   planLimit |-> getPlanStatus(p, rs).activeReminderLimit,
   planType |-> getPlanStatus(p, rs).planType]

\* ReminderService.getAllReminders: the object it returns
getAllReminders(p, rs) ==
  [reminders |-> SortByScheduledTime(rs),
   pendingCount |-> getPlanStatus(p, rs).currentPendingCount,
   planLimit |-> getPlanStatus(p, rs).activeReminderLimit,
   planType |-> getPlanStatus(p, rs).planType]

\* JavaScript values as the validators see them: strings are sequences of
\* characters, numbers are integers or one of NaN, Infinity, -Infinity
JsUndefined == [type |-> "undefined", chars |-> <<>>, num |-> 0, special |-> ""]
JsNull == [type |-> "object", chars |-> <<>>, num |-> 0, special |-> "null"]
JsString(cs) == [type |-> "string", chars |-> cs, num |-> 0, special |-> ""]
JsNumber(n) == [type |-> "number", chars |-> <<>>, num |-> n, special |-> ""]
JsNaN == [type |-> "number", chars |-> <<>>, num |-> 0, special |-> "NaN"]
JsInfinity == [type |-> "number", chars |-> <<>>, num |-> 0, special |-> "Infinity"]
JsMinusInfinity == [type |-> "number", chars |-> <<>>, num |-> 0, special |-> "-Infinity"]

\* !v
Falsy(v) ==
  \/ v.type = "undefined"
  \/ v.special = "null"
  \/ v.type = "string" /\ v.chars = <<>>
  \/ v.type = "number" /\ (v.special = "NaN" \/ (v.special = "" /\ v.num = 0))

Whitespace == {" "}
Digits == {"0", "1", "2", "3", "4", "5", "6", "7", "8", "9"}
LowerCase == {"a", "b", "c", "d", "e", "f", "g", "h", "i", "j", "k", "l", "m",
              "n", "o", "p", "q", "r", "s", "t", "u", "v", "w", "x", "y", "z"}

\* String.prototype.trim
RECURSIVE TrimStart(_)
TrimStart(cs) ==
  IF cs # <<>> /\ Head(cs) \in Whitespace THEN TrimStart(Tail(cs)) ELSE cs

RECURSIVE TrimEnd(_)
TrimEnd(cs) ==
  IF cs # <<>> /\ cs[Len(cs)] \in Whitespace THEN TrimEnd(SubSeq(cs, 1, Len(cs) - 1)) ELSE cs

Trim(cs) == TrimEnd(TrimStart(cs))

\* /^\d+@(c\.us|g\.us)$/
JID_PATTERN(cs) ==
  \E k \in 1..Len(cs) :
    /\ \A i \in 1..k : cs[i] \in Digits
    /\ SubSeq(cs, k + 1, Len(cs)) \in {<<"@", "c", ".", "u", "s">>, <<"@", "g", ".", "u", "s">>}

\* /^[a-z0-9_]+$/
SLUG_PATTERN(cs) ==
  /\ Len(cs) >= 1
  /\ \A i \in 1..Len(cs) : cs[i] \in LowerCase \cup Digits \cup {"_"}

\* scheduledTime <= Date.now(), t being finite
LessOrEqual(v, t) ==
  CASE v.special = "-Infinity" -> TRUE
    [] v.special \in {"Infinity", "NaN"} -> FALSE
    [] OTHER -> v.num <= t

\* validators.validateFutureTime
validateFutureTime(scheduledTime, t) ==
  IF scheduledTime.type # "number" \/ scheduledTime.special = "NaN"
  THEN "Scheduled time must be a valid number"
  ELSE IF LessOrEqual(scheduledTime, t) THEN "Reminder time must be in the future"
  ELSE "ok"

\* validators.validateChatId
validateChatId(chatId) ==
  IF Falsy(chatId) \/ chatId.type # "string" THEN "Invalid chat identifier"
  ELSE IF ~JID_PATTERN(chatId.chars) /\ ~SLUG_PATTERN(chatId.chars)
       THEN "Invalid chat identifier"
  ELSE "ok"

\* validators.validateRequiredFields
validateRequiredFields(payload) ==
  IF payload.type = "undefined" THEN "Missing required field: payload"
  ELSE IF Falsy(payload.chatId) \/ payload.chatId.type # "string"
          \/ Trim(payload.chatId.chars) = <<>>
       THEN "Missing required field: chatId"
  ELSE IF Falsy(payload.chatName) \/ payload.chatName.type # "string"
          \/ Trim(payload.chatName.chars) = <<>>
       THEN "Missing required field: chatName"
  ELSE IF payload.scheduledTime.type = "undefined" \/ payload.scheduledTime.special = "null"
       THEN "Missing required field: scheduledTime"
  ELSE "ok"

\* validators.validateCreateReminderPayload, at wall-clock time t
validateCreateReminderPayload(payload, t) ==
  IF validateRequiredFields(payload) # "ok" THEN validateRequiredFields(payload)
  ELSE IF validateChatId(payload.chatId) # "ok" THEN validateChatId(payload.chatId)
  ELSE IF validateFutureTime(payload.scheduledTime, t) # "ok"
       THEN validateFutureTime(payload.scheduledTime, t)
  ELSE "ok"

\* the characters of the strings the model's messages carry
Chars(str) ==
  CASE str = "" -> <<>>
    [] str = "5511999999999@c.us" ->
         <<"5", "5", "1", "1", "9", "9", "9", "9", "9", "9", "9", "9", "9",
           "@", "c", ".", "u", "s">>
    [] str = "Contact" -> <<"C", "o", "n", "t", "a", "c", "t">>

\* message.payload of a CREATE_REMINDER message, as the validators see it
MessagePayload(p) ==
  [type |-> "object",
   chatId |-> JsString(Chars(p.chatId)),
   chatName |-> JsString(Chars(p.chatName)),
   scheduledTime |-> JsNumber(p.scheduledTime)]

\* ReminderService.getOverdueReminders filter
getOverdueReminders(rs, t) ==
  SelectSeq(rs, LAMBDA r : r.status = PENDING /\ r.scheduledTime <= t)

\* ReminderService.cleanupExpiredCompleted filter
Retained(rs, t) ==
  SelectSeq(rs, LAMBDA r :
     ~(r.status = COMPLETED /\ r.completedAt # NULL /\ r.completedAt # 0
        /\ r.completedAt < t - COMPLETED_RETENTION_DAYS))

\* updateBadge: pendingCount > 0 ? String(pendingCount) : ''
BadgeText(rs) == IF PendingCount(rs) > 0 THEN ToString(PendingCount(rs)) ELSE ""

\* reconcileAlarms that re-registers only reminders still in the future
MissingAlarms_FutureOnly(rs, names) ==
  SelectSeq(rs, LAMBDA r : r.status = PENDING /\ r.id \notin names /\ r.scheduledTime > now)

\* reconcileAlarms: pending reminders whose alarm name is not in existingNames
MissingAlarms(rs, names) ==
  SelectSeq(rs, LAMBDA r : r.status = PENDING /\ r.id \notin names)

\* chrome.alarms.create(name, {when}) replaces an alarm of the same name
AlarmCreate(al, id, when) == [al EXCEPT ![id] = when]

\* chrome.alarms.clear(name): no error when absent
AlarmClear(al, id) == [al EXCEPT ![id] = NULL]

\* chrome.alarms.getAll().map((a) => a.name)
AlarmNames(al) == {i \in DOMAIN al : al[i] # NULL}

PendingIds(rs) == {rs[i].id : i \in {j \in 1..Len(rs) : rs[j].status = PENDING}}

\* StorageService.getReminders: result[STORAGE_KEYS.REMINDERS] || []
getReminders == IF persisted THEN store ELSE <<>>

\* saveReminders that adds the given reminders to the stored ones
saveReminders_Appends(rs) ==
  /\ store' = store \o rs
  /\ persisted' = TRUE
  /\ badge' = BadgeText(store \o rs)
  /\ orphans' = orphans \cap PendingIds(store \o rs)

\* StorageService.saveReminders, with the storage.onChanged badge refresh
saveReminders(rs) ==
  /\ store' = rs
  /\ persisted' = TRUE
  /\ badge' = BadgeText(rs)
  /\ orphans' = orphans \cap PendingIds(rs)

\* chrome.alarms.create(`reminder-${id}`, { when })
scheduleAlarm(id, when) ==
  /\ alarms' = AlarmCreate(alarms, id, when)
  /\ orphans' = orphans \ {id}

Payloads ==
  [id : {0}, chatId : {"5511999999999@c.us"}, chatName : {"Contact"},
   scheduledTime : {Now0, Now0 + 1}, createdAt : {0}, status : {""},
   completedAt : {NULL}]

\* ------------------------------------------------------------------ Init
\* Collections left behind by earlier runs of the extension: a reminder still
\* to come, an overdue one, one completed longer ago than the retention
\* window, and one completed exactly a retention window ago.
Template(kind, i) ==
  CASE kind = "future" ->
         [id |-> i, chatId |-> "5511999999999@c.us", chatName |-> "Contact",
          scheduledTime |-> Now0 + 1, createdAt |-> Now0 - 1,
          status |-> PENDING, completedAt |-> NULL]
    [] kind = "overdue" ->
         [id |-> i, chatId |-> "5511999999999@c.us", chatName |-> "Contact",
          scheduledTime |-> 2, createdAt |-> 1,
          status |-> PENDING, completedAt |-> NULL]
    [] kind = "expired" ->
         [id |-> i, chatId |-> "5511999999999@c.us", chatName |-> "Contact",
          scheduledTime |-> 2, createdAt |-> 1,
          status |-> COMPLETED, completedAt |-> 1]
    [] kind = "edge" ->
         [id |-> i, chatId |-> "5511999999999@c.us", chatName |-> "Contact",
          scheduledTime |-> 2, createdAt |-> 1,
          status |-> COMPLETED, completedAt |-> Now0 - COMPLETED_RETENTION_DAYS]

Kinds == <<"future", "overdue", "expired", "edge">>

\* one collection for each multiset of at most MaxInit kinds
InitStores ==
  UNION {{[i \in 1..n |-> Template(Kinds[ks[i]], i)] :
            ks \in {f \in [1..n -> 1..Len(Kinds)] : \A i \in 1..(n-1) : f[i] <= f[i+1]}} :
         n \in 0..MaxInit}

FreePlan == [planType |-> "free", activeReminderLimit |-> TightLimit]
PaidPlan == [planType |-> "paid", activeReminderLimit |-> PAID_ACTIVE_REMINDER_LIMIT]

\* what earlier runs left behind: every pending reminder has its wake-up
Persisted ==
  /\ store \in InitStores
  /\ persisted = (store # <<>>)
  /\ alarms = [i \in Ids |-> IF PendingIn(store, i)
                              THEN store[FindIndex(store, i)].scheduledTime ELSE NULL]
  /\ notifications = {}
  /\ badge = BadgeText(store)
  /\ now = Now0
  /\ nextId = Len(store)
  /\ ops = [s \in Slots |-> IdleOp]
  /\ replies = 0
  /\ resp = NoResponse
  /\ orphans = {}

\* the service worker is down; it will be started by the browser
Init ==
  /\ Persisted
  /\ plan \in {NoPlan, FreePlan}
  /\ plan = FreePlan => PendingCount(store) <= TightLimit
  /\ running = FALSE
  /\ task = [t \in Tasks |-> IdleTask]
  /\ msgs = BootMessages

\* the service worker is up and its startup sequence has finished
InitHandlers ==
  /\ Persisted
  /\ plan \in {FreePlan, PaidPlan}
  /\ plan = FreePlan => PendingCount(store) <= TightLimit
  /\ running = TRUE
  /\ task = [t \in Tasks |-> IF t = "startup" THEN [IdleTask EXCEPT !.pc = "done"] ELSE IdleTask]
  /\ msgs = MaxMessages

\* ------------------------------------------------------ process lifecycle
\* pending reminders that have no wake-up when the process starts
Orphans == {id \in PendingIds(store) : alarms[id] = NULL}

BeginTask(pc) == [IdleTask EXCEPT !.pc = pc]

TaskEnded(p) == task[p].pc \in {"idle", "done", "failed"}

\* async sequences in flight: handlers, the startup IIFE, the onInstalled listener
InFlight ==
  Cardinality({s \in Slots : ops[s].kind # "idle"})
    + Cardinality({p \in Tasks : ~TaskEnded(p)})

\* the browser starts the service worker: the top-level IIFE runs
WorkerStart ==
  /\ ~running
  /\ running' = TRUE
  /\ task' = [task EXCEPT !["startup"] = BeginTask("reconcileRead")]
  /\ UNCHANGED <<store, persisted, plan, alarms, notifications, badge, now, nextId, ops,
                 msgs, replies, resp>>
  /\ orphans' = Orphans

\* install / upgrade: the worker starts and chrome.runtime.onInstalled fires
InstallEvent ==
  /\ ~running
  /\ MaxInFlight >= 2
  /\ running' = TRUE
  /\ task' = [task EXCEPT !["startup"] = BeginTask("reconcileRead"),
                          !["onInstalled"] = BeginTask("planRead")]
  /\ UNCHANGED <<store, persisted, plan, alarms, notifications, badge, now, nextId, ops,
                 msgs, replies, resp>>
  /\ orphans' = Orphans

\* the external timer facility drops an entry while the process is down
AlarmDropped(id) ==
  /\ ~running
  /\ alarms[id] # NULL
  /\ alarms' = AlarmClear(alarms, id)
  /\ UNCHANGED <<store, persisted, plan, notifications, badge, now, nextId, running, ops,
                 task, msgs, replies, resp, orphans>>

\* the browser is restarted while the worker is down: the action badge,
\* which is not persisted, is empty until setBadgeText is called again
BadgeCleared ==
  /\ ~running
  /\ badge # ""
  /\ badge' = ""
  /\ UNCHANGED <<store, persisted, plan, alarms, notifications, now, nextId, running, ops,
                 task, msgs, replies, resp, orphans>>

\* wall-clock time passes
Tick ==
  /\ now < Now0 + MaxTicks
  /\ now' = now + 1
  /\ UNCHANGED <<store, persisted, plan, alarms, notifications, badge, nextId, running, ops,
                 task, msgs, replies, resp, orphans>>

\* --------------------------------------- startup IIFE / onInstalled steps
TaskFrame == UNCHANGED <<now, nextId, running, ops, msgs, replies, resp>>

\* onInstalled skips checkOverdueReminders; the startup IIFE runs it
AfterReconcile(p) == IF p = "startup" THEN "overdueRead" ELSE "cleanupRead"

\* onInstalled: getUserPlan, then saveUserPlan(DEFAULT_PLAN) if (!plan || !plan.planType)
InitPlan(p) ==
  /\ task[p].pc = "planRead"
  /\ plan' = IF getUserPlan(plan).planType = "" THEN DEFAULT_PLAN ELSE plan
  /\ task' = [task EXCEPT ![p].pc = "reconcileRead"]
  /\ UNCHANGED <<store, persisted, alarms, notifications, badge, orphans>> /\ TaskFrame

\* reconcileAlarms: const reminders = await StorageService.getReminders()
ReconcileRead(p) ==
  /\ task[p].pc = "reconcileRead"
  /\ task' = [task EXCEPT ![p].pc = "reconcileGetAll", ![p].snap = store]
  /\ UNCHANGED <<store, persisted, plan, alarms, notifications, badge, orphans>> /\ TaskFrame

\* reconcileAlarms: const existingAlarms = await chrome.alarms.getAll()
ReconcileGetAll(p) ==
  /\ task[p].pc = "reconcileGetAll"
  /\ LET names == AlarmNames(alarms)
         todo == MissingAlarms(task[p].snap, names)
     IN task' = [task EXCEPT ![p].names = names, ![p].todo = todo,
                   ![p].pc = IF todo = <<>> THEN AfterReconcile(p) ELSE "reconcileCreate"]
  /\ UNCHANGED <<store, persisted, plan, alarms, notifications, badge, orphans>> /\ TaskFrame

\* reconcileAlarms: await chrome.alarms.create(alarmName, { when })
ReconcileCreate(p) ==
  /\ task[p].pc = "reconcileCreate"
  /\ LET r == Head(task[p].todo)
         rest == Tail(task[p].todo)
     IN /\ scheduleAlarm(r.id, r.scheduledTime)
        /\ task' = [task EXCEPT ![p].todo = rest,
                      ![p].registered = @ \cup {r.id},
                      ![p].pc = IF rest = <<>> THEN AfterReconcile(p) ELSE "reconcileCreate"]
  /\ UNCHANGED <<store, persisted, plan, notifications, badge>> /\ TaskFrame

\* chrome.alarms.create rejects: the rejection escapes the sequence
ReconcileCreateFails(p) ==
  /\ task[p].pc = "reconcileCreate"
  /\ task' = [task EXCEPT ![p].pc = "failed", ![p].err = "alarms.create"]
  /\ UNCHANGED <<store, persisted, plan, alarms, notifications, badge, orphans>> /\ TaskFrame

\* checkOverdueReminders: await ReminderService.getOverdueReminders()
OverdueRead(p) ==
  /\ task[p].pc = "overdueRead"
  /\ LET overdue == getOverdueReminders(store, now)
     IN task' = [task EXCEPT ![p] = [IdleTask EXCEPT
                   !.todo = overdue, !.scanned = IdsOf(overdue),
                   !.pc = IF overdue = <<>> THEN "cleanupRead" ELSE "overdueNotify"]]
  /\ UNCHANGED <<store, persisted, plan, alarms, notifications, badge, orphans>> /\ TaskFrame

\* checkOverdueReminders: await createReminderNotification(reminder)
OverdueNotify(p) ==
  /\ task[p].pc = "overdueNotify"
  /\ LET r == Head(task[p].todo)
         rest == Tail(task[p].todo)
     IN /\ notifications' = notifications \cup {r.id}
        /\ task' = [task EXCEPT ![p].todo = rest,
                      ![p].dispatched = @ \cup {r.id},
                      ![p].pc = IF rest = <<>> THEN "cleanupRead" ELSE "overdueNotify"]
  /\ UNCHANGED <<store, persisted, plan, alarms, badge, orphans>> /\ TaskFrame

\* chrome.notifications.create rejects: the rejection escapes the loop
OverdueNotifyFails(p) ==
  /\ task[p].pc = "overdueNotify"
  /\ task' = [task EXCEPT ![p].pc = "failed", ![p].err = "notifications.create",
                ![p].dispatched = @ \cup {Head(task[p].todo).id}]
  /\ UNCHANGED <<store, persisted, plan, alarms, notifications, badge, orphans>> /\ TaskFrame

\* cleanupExpiredCompleted: read, filter, removedCount
CleanupRead(p) ==
  /\ task[p].pc = "cleanupRead"
  /\ LET retained == Retained(store, now)
         removedCount == Len(store) - Len(retained)
     IN task' = [task EXCEPT ![p] = [IdleTask EXCEPT
                   !.snap = IF removedCount > 0 THEN retained ELSE <<>>,
                   !.pc = IF removedCount > 0 THEN "cleanupSave" ELSE "badge"]]
  /\ UNCHANGED <<store, persisted, plan, alarms, notifications, badge, orphans>> /\ TaskFrame

\* cleanupExpiredCompleted: await storage.saveReminders(retained)
CleanupSave(p) ==
  /\ task[p].pc = "cleanupSave"
  /\ saveReminders(task[p].snap)
  /\ task' = [task EXCEPT ![p] = [IdleTask EXCEPT !.pc = "badge"]]
  /\ UNCHANGED <<plan, alarms, notifications>> /\ TaskFrame

\* updateBadge(): getReminders, setBadgeText
UpdateBadge(p) ==
  /\ task[p].pc = "badge"
  /\ badge' = BadgeText(store)
  /\ task' = [task EXCEPT ![p].pc = "done"]
  /\ UNCHANGED <<store, persisted, plan, alarms, notifications, orphans>> /\ TaskFrame

\* ------------------------------------------------ message handlers: create
OpFrame == UNCHANGED <<running, task, replies, resp>>

\* a message is delivered to chrome.runtime.onMessage
Receive ==
  /\ msgs > 0
  /\ msgs' = msgs - 1

NoReceive == UNCHANGED msgs

\* the listener starts handler(message, sender) at once, in the lowest free slot
FreeSlot(s) ==
  /\ running
  /\ InFlight < MaxInFlight
  /\ ops[s].kind = "idle"
  /\ \A t \in Slots : t < s => ops[t].kind # "idle"

\* `You've reached the limit of ${planStatus.activeReminderLimit} active reminders. ...`
PlanLimitMessage(limit) ==
  CASE limit = 1 -> "You've reached the limit of 1 active reminders. Upgrade to create more."
    [] limit = 2 -> "You've reached the limit of 2 active reminders. Upgrade to create more."
    [] limit = 5 -> "You've reached the limit of 5 active reminders. Upgrade to create more."

\* the text of the StorageQuotaError
StorageQuotaMessage ==
  "Storage is almost full. Please delete some old reminders before creating new ones."

\* the text Chrome gives a rejected chrome.storage.local call
StorageErrorText == "QUOTA_BYTES quota exceeded"

\* the text Chrome gives a rejected chrome.alarms call
AlarmsErrorText == "Unable to create alarm."

\* JSON.stringify(reminders).length
EstimatedBytes(rs) == 2 + Len(rs) * ReminderJsonBytes + (IF Len(rs) > 1 THEN Len(rs) - 1 ELSE 0)

\* checkStorageQuota that reports only a collection as large as the budget
nearQuota_WhenFull(rs) == EstimatedBytes(rs) >= MAX_BYTES

\* checkStorageQuota: usagePercent >= STORAGE_QUOTA.WARNING_THRESHOLD
nearQuota(rs) == EstimatedBytes(rs) * 100 >= MAX_BYTES * WARNING_THRESHOLD_PERCENT

\* CREATE_REMINDER arrives: createReminder runs validateCreateReminderPayload
\* synchronously and, when valid, issues plan.canCreateReminder(storage).
\* The id generateId() will hand out is reserved here (ids are opaque).
ReceiveCreate(s, payload) ==
  /\ FreeSlot(s)
  /\ LET v == validateCreateReminderPayload(MessagePayload(payload), now)
     IN IF v # "ok"
        THEN /\ ops' = [ops EXCEPT ![s] = [IdleOp EXCEPT !.kind = "create",
                          !.pc = "rejected", !.payload = payload, !.err = "ValidationError",
                          !.msg = v]]
             /\ nextId' = nextId
        ELSE /\ nextId < MaxIds
             /\ nextId' = nextId + 1
             /\ ops' = [ops EXCEPT ![s] = [IdleOp EXCEPT !.kind = "create",
                          !.pc = "admit", !.payload = payload, !.rid = nextId + 1]]
  /\ UNCHANGED <<store, persisted, plan, alarms, notifications, badge, now, orphans>>
  /\ OpFrame /\ Receive

\* const canCreate = await plan.canCreateReminder(storage)
CreateAdmit(s) ==
  /\ ops[s].kind = "create" /\ ops[s].pc = "admit"
  /\ ops' = [ops EXCEPT ![s].pc = IF canCreateReminder(plan, store) THEN "quota" ELSE "limit"]
  /\ UNCHANGED <<store, persisted, plan, alarms, notifications, badge, now, nextId, orphans>>
  /\ OpFrame /\ NoReceive

\* const planStatus = await plan.getPlanStatus(storage); throw PlanLimitError
CreateLimit(s) ==
  /\ ops[s].kind = "create" /\ ops[s].pc = "limit"
  /\ ops' = [ops EXCEPT ![s].pc = "rejected", ![s].err = "PlanLimitError",
               ![s].msg = PlanLimitMessage(getPlanStatus(plan, store).activeReminderLimit),
               ![s].seen = getPlanStatus(plan, store).activeReminderLimit]
  /\ UNCHANGED <<store, persisted, plan, alarms, notifications, badge, now, nextId, orphans>>
  /\ OpFrame /\ NoReceive

\* const quotaCheck = await checkStorageQuota({ storage }); then the reminder
\* object is built (createdAt: Date.now()) and storage.getReminders() is issued
CreateQuota(s) ==
  /\ ops[s].kind = "create" /\ ops[s].pc = "quota"
  /\ IF nearQuota(store)
     THEN ops' = [ops EXCEPT ![s].pc = "rejected", ![s].err = "StorageQuotaError",
                    ![s].msg = StorageQuotaMessage]
     ELSE ops' = [ops EXCEPT ![s].pc = "read",
                    ![s].rem = [id |-> ops[s].rid,
                                chatId |-> ops[s].payload.chatId,
                                chatName |-> ops[s].payload.chatName,
                                scheduledTime |-> ops[s].payload.scheduledTime,
                                createdAt |-> now,
                                status |-> PENDING,
                                completedAt |-> NULL]]
  /\ UNCHANGED <<store, persisted, plan, alarms, notifications, badge, now, nextId, orphans>>
  /\ OpFrame /\ NoReceive

\* const reminders = await storage.getReminders(); reminders.push(reminder)
CreateRead(s) ==
  /\ ops[s].kind = "create" /\ ops[s].pc = "read"
  /\ ops' = [ops EXCEPT ![s].pc = "save", ![s].snap = Append(store, ops[s].rem)]
  /\ UNCHANGED <<store, persisted, plan, alarms, notifications, badge, now, nextId, orphans>>
  /\ OpFrame /\ NoReceive

\* await storage.saveReminders(reminders)
CreateSave(s) ==
  /\ ops[s].kind = "create" /\ ops[s].pc = "save"
  /\ saveReminders(ops[s].snap)
  /\ ops' = [ops EXCEPT ![s].pc = "alarm"]
  /\ UNCHANGED <<plan, alarms, notifications, now, nextId>>
  /\ OpFrame /\ NoReceive

\* await chrome.alarms.create(`reminder-${id}`, { when }); return reminder
CreateAlarm(s) ==
  /\ ops[s].kind = "create" /\ ops[s].pc = "alarm"
  /\ scheduleAlarm(ops[s].rem.id, ops[s].rem.scheduledTime)
  /\ ops' = [ops EXCEPT ![s].pc = "resolved", ![s].seen = PendingCount(store)]
  /\ UNCHANGED <<store, persisted, plan, notifications, badge, now, nextId>>
  /\ OpFrame /\ NoReceive

\* chrome.alarms.create rejects after the store write
CreateAlarmFails(s) ==
  /\ ops[s].kind = "create" /\ ops[s].pc = "alarm"
  /\ ops' = [ops EXCEPT ![s].pc = "rejected", ![s].err = "Error", ![s].msg = AlarmsErrorText]
  /\ UNCHANGED <<store, persisted, plan, alarms, notifications, badge, now, nextId, orphans>>
  /\ OpFrame /\ NoReceive

\* ---------------------------------------------- message handlers: complete
\* ids the UI can name: of reminders persisted at start or answered by a create
Known(id) == id <= nextId /\ \A t \in Slots : ops[t].kind = "create" => ops[t].rid # id

\* a popup that writes the completion into storage itself before messaging
ReceiveComplete_DirectWrite(s, id) ==
  /\ FreeSlot(s)
  /\ Known(id)
  /\ ops' = [ops EXCEPT ![s] = [IdleOp EXCEPT !.kind = "complete", !.pc = "read", !.rid = id]]
  /\ saveReminders([i \in 1..Len(store) |->
                      IF store[i].id = id /\ store[i].status = PENDING
                      THEN [store[i] EXCEPT !.status = COMPLETED, !.completedAt = now]
                      ELSE store[i]])
  /\ UNCHANGED <<plan, alarms, notifications, now, nextId>>
  /\ OpFrame /\ Receive

\* COMPLETE_REMINDER arrives, for an id the UI has been given
ReceiveComplete(s, id) ==
  /\ FreeSlot(s)
  /\ Known(id)
  /\ ops' = [ops EXCEPT ![s] = [IdleOp EXCEPT !.kind = "complete", !.pc = "read", !.rid = id]]
  /\ UNCHANGED <<store, persisted, plan, alarms, notifications, badge, now, nextId, orphans>>
  /\ OpFrame /\ Receive

\* completeReminder that sets the status and leaves completedAt null
CompleteRead_NoTimestamp(s) ==
  /\ ops[s].kind = "complete" /\ ops[s].pc = "read"
  /\ LET index == FindIndex(store, ops[s].rid)
     IN ops' =
          IF index = 0
          THEN [ops EXCEPT ![s].pc = "rejected", ![s].err = "NotFoundError",
                  ![s].msg = "Reminder not found"]
          ELSE IF store[index].status = COMPLETED
          THEN [ops EXCEPT ![s].pc = "rejected", ![s].err = "AlreadyCompletedError",
                  ![s].msg = "Reminder is already completed", ![s].rem = store[index]]
          ELSE [ops EXCEPT ![s].pc = "save",
                  ![s].snap = [store EXCEPT ![index].status = COMPLETED],
                  ![s].rem = [store[index] EXCEPT !.status = COMPLETED]]
  /\ UNCHANGED <<store, persisted, plan, alarms, notifications, badge, now, nextId, orphans>>
  /\ OpFrame /\ NoReceive

\* getReminders, findIndex, NotFoundError / AlreadyCompletedError, else mutate
CompleteRead(s) ==
  /\ ops[s].kind = "complete" /\ ops[s].pc = "read"
  /\ LET index == FindIndex(store, ops[s].rid)
     IN ops' =
          IF index = 0
          THEN [ops EXCEPT ![s].pc = "rejected", ![s].err = "NotFoundError",
                  ![s].msg = "Reminder not found"]
          ELSE IF store[index].status = COMPLETED
          THEN [ops EXCEPT ![s].pc = "rejected", ![s].err = "AlreadyCompletedError",
                  ![s].msg = "Reminder is already completed", ![s].rem = store[index]]
          ELSE [ops EXCEPT ![s].pc = "save",
                  ![s].snap = [store EXCEPT ![index].status = COMPLETED,
                                            ![index].completedAt = now],
                  ![s].rem = [store[index] EXCEPT !.status = COMPLETED,
                                                  !.completedAt = now]]
  /\ UNCHANGED <<store, persisted, plan, alarms, notifications, badge, now, nextId, orphans>>
  /\ OpFrame /\ NoReceive

\* await storage.saveReminders(reminders)
CompleteSave(s) ==
  /\ ops[s].kind = "complete" /\ ops[s].pc = "save"
  /\ saveReminders(ops[s].snap)
  /\ ops' = [ops EXCEPT ![s].pc = "clear"]
  /\ UNCHANGED <<plan, alarms, notifications, now, nextId>>
  /\ OpFrame /\ NoReceive

\* a complete that treats a missing wake-up as an error
CompleteClear_FailsWhenAbsent(s) ==
  /\ ops[s].kind = "complete" /\ ops[s].pc = "clear"
  /\ alarms' = AlarmClear(alarms, ops[s].rid)
  /\ ops' = IF alarms[ops[s].rid] = NULL
            THEN [ops EXCEPT ![s].pc = "rejected", ![s].err = "Error",
                    ![s].msg = AlarmsErrorText]
            ELSE [ops EXCEPT ![s].pc = "resolved"]
  /\ UNCHANGED <<store, persisted, plan, notifications, badge, now, nextId, orphans>>
  /\ OpFrame /\ NoReceive

\* await chrome.alarms.clear(`reminder-${reminderId}`)
CompleteClear(s) ==
  /\ ops[s].kind = "complete" /\ ops[s].pc = "clear"
  /\ alarms' = AlarmClear(alarms, ops[s].rid)
  /\ ops' = [ops EXCEPT ![s].pc = "resolved"]
  /\ UNCHANGED <<store, persisted, plan, notifications, badge, now, nextId, orphans>>
  /\ OpFrame /\ NoReceive

\* ------------------------------------------------ message handlers: delete
\* DELETE_REMINDER arrives, for an id the UI has been given
ReceiveDelete(s, id) ==
  /\ FreeSlot(s)
  /\ Known(id)
  /\ ops' = [ops EXCEPT ![s] = [IdleOp EXCEPT !.kind = "delete", !.pc = "read", !.rid = id]]
  /\ UNCHANGED <<store, persisted, plan, alarms, notifications, badge, now, nextId, orphans>>
  /\ OpFrame /\ Receive

\* getReminders, findIndex, NotFoundError, else splice
DeleteRead(s) ==
  /\ ops[s].kind = "delete" /\ ops[s].pc = "read"
  /\ LET index == FindIndex(store, ops[s].rid)
     IN ops' =
          IF index = 0
          THEN [ops EXCEPT ![s].pc = "rejected", ![s].err = "NotFoundError",
                  ![s].msg = "Reminder not found"]
          ELSE [ops EXCEPT ![s].pc = "save", ![s].snap = Splice(store, index)]
  /\ UNCHANGED <<store, persisted, plan, alarms, notifications, badge, now, nextId, orphans>>
  /\ OpFrame /\ NoReceive

\* await storage.saveReminders(reminders)
DeleteSave(s) ==
  /\ ops[s].kind = "delete" /\ ops[s].pc = "save"
  /\ saveReminders(ops[s].snap)
  /\ ops' = [ops EXCEPT ![s].pc = "clear"]
  /\ UNCHANGED <<plan, alarms, notifications, now, nextId>>
  /\ OpFrame /\ NoReceive

\* await chrome.alarms.clear(`reminder-${reminderId}`)
DeleteClear(s) ==
  /\ ops[s].kind = "delete" /\ ops[s].pc = "clear"
  /\ alarms' = AlarmClear(alarms, ops[s].rid)
  /\ ops' = [ops EXCEPT ![s].pc = "resolved"]
  /\ UNCHANGED <<store, persisted, plan, notifications, badge, now, nextId, orphans>>
  /\ OpFrame /\ NoReceive

\* --------------------------------------------------- message handlers: list
\* GET_REMINDERS arrives: getAllReminders issues its three storage reads
\* (getReminders, and getReminders + getUserPlan of getPlanStatus) at once
ReceiveList(s) ==
  /\ FreeSlot(s)
  /\ ops' = [ops EXCEPT ![s] = [IdleOp EXCEPT !.kind = "list", !.pc = "read"]]
  /\ UNCHANGED <<store, persisted, plan, alarms, notifications, badge, now, nextId, orphans>>
  /\ OpFrame /\ Receive

\* the reads are answered; sort; return { reminders, pendingCount, planLimit, planType }
ListRead(s) ==
  /\ ops[s].kind = "list" /\ ops[s].pc = "read"
  /\ ops' = [ops EXCEPT ![s].pc = "resolved", ![s].result = getAllReminders(plan, store)]
  /\ UNCHANGED <<store, persisted, plan, alarms, notifications, badge, now, nextId, orphans>>
  /\ OpFrame /\ NoReceive

\* chrome.storage.local.get / set rejects (the quota is exceeded, the backing
\* database fails): the rejection leaves the service function at that await
StorageRejects_ClearsWakeUp(s) ==
  /\ ops[s].kind \in {"create", "complete", "delete", "list"}
  /\ ops[s].pc \in {"admit", "limit", "quota", "read", "save"}
  /\ ops' = [ops EXCEPT ![s].pc = "rejected", ![s].err = "Error", ![s].msg = StorageErrorText]
  /\ alarms' = IF ops[s].pc = "save" /\ ops[s].kind \in {"complete", "delete"}
               THEN AlarmClear(alarms, ops[s].rid) ELSE alarms
  /\ UNCHANGED <<store, persisted, plan, notifications, badge, now, nextId, orphans>>
  /\ OpFrame /\ NoReceive

\* chrome.storage.local.get / set rejects (the quota is exceeded, the backing
\* database fails): the rejection leaves the service function at that await
StorageRejects(s) ==
  /\ ops[s].kind \in {"create", "complete", "delete", "list"}
  /\ ops[s].pc \in {"admit", "limit", "quota", "read", "save"}
  /\ ops' = [ops EXCEPT ![s].pc = "rejected", ![s].err = "Error", ![s].msg = StorageErrorText]
  /\ UNCHANGED <<store, persisted, plan, alarms, notifications, badge, now, nextId, orphans>>
  /\ OpFrame /\ NoReceive

\* the words of the error texts, split at the spaces
Words(text) ==
  CASE text = "" -> <<>>
    [] text = "Reminder" -> <<"Reminder">>
    [] text = "limit" -> <<"limit">>
    [] text = "must be" -> <<"must", "be">>
    [] text = "Invalid" -> <<"Invalid">>
    [] text = "Missing" -> <<"Missing">>
    [] text = "QUOTA_BYTES quota exceeded" -> <<"QUOTA_BYTES", "quota", "exceeded">>
    [] text = "Unable to create alarm." -> <<"Unable", "to", "create", "alarm.">>
    [] text = "Scheduled time must be a valid number" ->
         <<"Scheduled", "time", "must", "be", "a", "valid", "number">>
    [] text = "Reminder time must be in the future" ->
         <<"Reminder", "time", "must", "be", "in", "the", "future">>
    [] text = "Invalid chat identifier" -> <<"Invalid", "chat", "identifier">>
    [] text = "Missing required field: payload" -> <<"Missing", "required", "field:", "payload">>
    [] text = "Missing required field: chatId" -> <<"Missing", "required", "field:", "chatId">>
    [] text = "Missing required field: chatName" ->
         <<"Missing", "required", "field:", "chatName">>
    [] text = "Missing required field: scheduledTime" ->
         <<"Missing", "required", "field:", "scheduledTime">>
    [] text = "Reminder not found" -> <<"Reminder", "not", "found">>
    [] text = "Reminder is already completed" -> <<"Reminder", "is", "already", "completed">>
    [] text = StorageQuotaMessage ->
         <<"Storage", "is", "almost", "full.", "Please", "delete", "some", "old",
           "reminders", "before", "creating", "new", "ones.">>
    [] text = PlanLimitMessage(1) ->
         <<"You've", "reached", "the", "limit", "of", "1", "active", "reminders.",
           "Upgrade", "to", "create", "more.">>
    [] text = PlanLimitMessage(2) ->
         <<"You've", "reached", "the", "limit", "of", "2", "active", "reminders.",
           "Upgrade", "to", "create", "more.">>
    [] text = PlanLimitMessage(5) ->
         <<"You've", "reached", "the", "limit", "of", "5", "active", "reminders.",
           "Upgrade", "to", "create", "more.">>

\* err.message.includes(pattern), word by word
Includes(message, pattern) ==
  LET ws == Words(message)
      pat == Words(pattern)
  IN \E i \in 1..(Len(ws) - Len(pat) + 1) : SubSeq(ws, i, i + Len(pat) - 1) = pat

\* !err.name || err.name === 'Error' || err.name === 'StorageError'
isStorageError(name) == name \in {"", "Error", "StorageError"}

\* a catch branch that decides on the words of the text alone
friendlyMessage_ByTextOnly(name, message) ==
  IF /\ ~Includes(message, "Reminder")
     /\ ~Includes(message, "limit")
     /\ ~Includes(message, "must be")
     /\ ~Includes(message, "Invalid")
     /\ ~Includes(message, "Missing")
  THEN "Failed to save reminder. Please try again."
  ELSE IF message = "" THEN "An unknown error occurred" ELSE message

\* the catch branch of the listener: an error without a name of its own whose
\* text has none of the listed words gets the generic text, every other
\* error keeps its message
friendlyMessage(name, message) ==
  IF /\ isStorageError(name)
     /\ ~Includes(message, "Reminder")
     /\ ~Includes(message, "limit")
     /\ ~Includes(message, "must be")
     /\ ~Includes(message, "Invalid")
     /\ ~Includes(message, "Missing")
  THEN "Failed to save reminder. Please try again."
  ELSE IF message = "" THEN "An unknown error occurred" ELSE message

\* what the listener passes to sendResponse for a settled handler
Response(op) ==
  IF op.pc = "resolved"
  THEN [success |-> TRUE, data |-> op.kind, error |-> ""]
  ELSE [success |-> FALSE, data |-> "", error |-> friendlyMessage(op.err, op.msg)]

\* a listener that logs a rejection and never answers it
Reply_SilentOnError(s) ==
  /\ ops[s].kind \in {"create", "complete", "delete", "list"}
  /\ ops[s].pc \in {"resolved", "rejected"}
  /\ ops' = [ops EXCEPT ![s] = IdleOp]
  /\ IF ops[s].pc = "resolved"
     THEN replies' = replies + 1 /\ resp' = Response(ops[s])
     ELSE UNCHANGED <<replies, resp>>
  /\ UNCHANGED <<store, persisted, plan, alarms, notifications, badge, now, nextId, orphans>>
  /\ UNCHANGED <<running, task>> /\ NoReceive

\* .then((result) => sendResponse(result)) / .catch(... sendResponse(...))
Reply(s) ==
  /\ ops[s].kind \in {"create", "complete", "delete", "list"}
  /\ ops[s].pc \in {"resolved", "rejected"}
  /\ ops' = [ops EXCEPT ![s] = IdleOp]
  /\ replies' = replies + 1
  /\ resp' = Response(ops[s])
  /\ UNCHANGED <<store, persisted, plan, alarms, notifications, badge, now, nextId, orphans>>
  /\ UNCHANGED <<running, task>> /\ NoReceive

\* a message without a type: answered synchronously, no handler is started
ReceiveNoType ==
  /\ running
  /\ replies' = replies + 1
  /\ resp' = [success |-> FALSE, data |-> "", error |-> "Invalid message format"]
  /\ UNCHANGED <<store, persisted, plan, alarms, notifications, badge, now, nextId, orphans,
                 running, task, ops>>
  /\ Receive

\* a message whose type has no entry in messageHandlers: answered synchronously
ReceiveUnknownType ==
  /\ running
  /\ replies' = replies + 1
  /\ resp' = [success |-> FALSE, data |-> "", error |-> "Unknown message type"]
  /\ UNCHANGED <<store, persisted, plan, alarms, notifications, badge, now, nextId, orphans,
                 running, task, ops>>
  /\ Receive

\* ----------------------------------------------------------- alarm handler
\* a one-shot alarm whose time has come fires: chrome.alarms.onAlarm
AlarmFired(s, id) ==
  /\ FreeSlot(s)
  /\ alarms[id] # NULL /\ alarms[id] <= now
  /\ alarms' = AlarmClear(alarms, id)
  /\ ops' = [ops EXCEPT ![s] = [IdleOp EXCEPT !.kind = "alarm", !.pc = "lookup", !.rid = id]]
  /\ UNCHANGED <<store, persisted, plan, notifications, badge, now, nextId, orphans>>
  /\ OpFrame /\ NoReceive

\* alarm names: a reminder id stands for `reminder-<id>`, OtherAlarm for a
\* name without the prefix
OtherAlarm == 0

\* alarm.name.startsWith(ALARM_PREFIX)
startsWithPrefix(name) == name \in Ids

\* chrome.alarms.onAlarm delivers an alarm that is not a reminder's:
\* handleAlarmFired is called with it
OtherAlarmFired(s) ==
  /\ FreeSlot(s)
  /\ ops' = [ops EXCEPT ![s] = [IdleOp EXCEPT !.kind = "alarm", !.pc = "called",
                                              !.rid = OtherAlarm]]
  /\ UNCHANGED <<store, persisted, plan, alarms, notifications, badge, now, nextId, orphans>>
  /\ OpFrame /\ NoReceive

\* handleAlarmFired without the prefix check: getReminders is issued
AlarmIgnored_NoPrefixCheck(s) ==
  /\ ops[s].kind = "alarm" /\ ops[s].pc = "called"
  /\ ops' = [ops EXCEPT ![s].pc = "lookup"]
  /\ UNCHANGED <<store, persisted, plan, alarms, notifications, badge, now, nextId, orphans>>
  /\ OpFrame /\ NoReceive

\* if (!alarm.name.startsWith(ALARM_PREFIX)) return
AlarmIgnored(s) ==
  /\ ops[s].kind = "alarm" /\ ops[s].pc = "called"
  /\ ~startsWithPrefix(ops[s].rid)
  /\ ops' = [ops EXCEPT ![s] = IdleOp]
  /\ UNCHANGED <<store, persisted, plan, alarms, notifications, badge, now, nextId, orphans>>
  /\ OpFrame /\ NoReceive

\* handleAlarmFired that notifies for any reminder it finds, whatever its status
AlarmLookup_AnyStatus(s) ==
  /\ ops[s].kind = "alarm" /\ ops[s].pc = "lookup"
  /\ ops' = IF FindIndex(store, ops[s].rid) # 0
            THEN [ops EXCEPT ![s].pc = "notify",
                    ![s].rem = store[FindIndex(store, ops[s].rid)]]
            ELSE [ops EXCEPT ![s] = IdleOp]
  /\ UNCHANGED <<store, persisted, plan, alarms, notifications, badge, now, nextId, orphans>>
  /\ OpFrame /\ NoReceive

\* handleAlarmFired: getReminders, find, if (reminder && status === 'pending')
AlarmLookup(s) ==
  /\ ops[s].kind = "alarm" /\ ops[s].pc = "lookup"
  /\ ops' = IF PendingIn(store, ops[s].rid)
            THEN [ops EXCEPT ![s].pc = "notify",
                    ![s].rem = store[FindIndex(store, ops[s].rid)]]
            ELSE [ops EXCEPT ![s] = IdleOp]
  /\ UNCHANGED <<store, persisted, plan, alarms, notifications, badge, now, nextId, orphans>>
  /\ OpFrame /\ NoReceive

\* createReminderNotification: await chrome.notifications.create(...)
AlarmNotify(s) ==
  /\ ops[s].kind = "alarm" /\ ops[s].pc = "notify"
  /\ notifications' = notifications \cup {ops[s].rem.id}
  /\ ops' = [ops EXCEPT ![s] = IdleOp]
  /\ UNCHANGED <<store, persisted, plan, alarms, badge, now, nextId, orphans>>
  /\ OpFrame /\ NoReceive

\* a handler that gives up on a reminder whose alert failed: marks it completed
AlarmNotifyFails_GivesUp(s) ==
  /\ ops[s].kind = "alarm" /\ ops[s].pc = "notify"
  /\ ops' = [ops EXCEPT ![s] = IdleOp]
  /\ saveReminders([i \in 1..Len(store) |->
                      IF store[i].id = ops[s].rid
                      THEN [store[i] EXCEPT !.status = COMPLETED, !.completedAt = now]
                      ELSE store[i]])
  /\ UNCHANGED <<plan, alarms, notifications, now, nextId>>
  /\ OpFrame /\ NoReceive

\* chrome.notifications.create rejects (e.g. permission denied): not retried
AlarmNotifyFails(s) ==
  /\ ops[s].kind = "alarm" /\ ops[s].pc = "notify"
  /\ ops' = [ops EXCEPT ![s] = IdleOp]
  /\ UNCHANGED <<store, persisted, plan, alarms, notifications, badge, now, nextId, orphans>>
  /\ OpFrame /\ NoReceive

\* ------------------------------------------------- notification click handler
\* the alert fallback-<id> is recorded in notifications as -id
Fallback(id) == 0 - id

\* the user clicks the alert reminder-<id>: chrome.notifications.onClicked
NotificationClicked(s, id) ==
  /\ FreeSlot(s)
  /\ id \in notifications
  /\ ops' = [ops EXCEPT ![s] = [IdleOp EXCEPT !.kind = "click", !.pc = "lookup", !.rid = id]]
  /\ UNCHANGED <<store, persisted, plan, alarms, notifications, badge, now, nextId, orphans>>
  /\ OpFrame /\ NoReceive

\* getReminders, find; without a reminder the alert is cleared at once
ClickLookup(s) ==
  /\ ops[s].kind = "click" /\ ops[s].pc = "lookup"
  /\ IF FindIndex(store, ops[s].rid) # 0
     THEN /\ ops' = [ops EXCEPT ![s].pc = "navigate",
                       ![s].rem = store[FindIndex(store, ops[s].rid)]]
          /\ notifications' = notifications
     ELSE /\ ops' = [ops EXCEPT ![s] = IdleOp]
          /\ notifications' = notifications \ {ops[s].rid}
  /\ UNCHANGED <<store, persisted, plan, alarms, badge, now, nextId, orphans>>
  /\ OpFrame /\ NoReceive

\* await ChatService.navigateToChat(reminder.chatId) resolves;
\* chrome.notifications.clear(notificationId)
ClickNavigate(s) ==
  /\ ops[s].kind = "click" /\ ops[s].pc = "navigate"
  /\ ops' = [ops EXCEPT ![s] = IdleOp]
  /\ notifications' = notifications \ {ops[s].rid}
  /\ UNCHANGED <<store, persisted, plan, alarms, badge, now, nextId, orphans>>
  /\ OpFrame /\ NoReceive

\* navigateToChat rejects: the catch branch asks for the fallback alert
ClickNavigateFails(s) ==
  /\ ops[s].kind = "click" /\ ops[s].pc = "navigate"
  /\ ops' = [ops EXCEPT ![s].pc = "fallback"]
  /\ UNCHANGED <<store, persisted, plan, alarms, notifications, badge, now, nextId, orphans>>
  /\ OpFrame /\ NoReceive

\* await chrome.notifications.create(`fallback-${reminderId}`, ...) resolves;
\* chrome.notifications.clear(notificationId)
ClickFallback(s) ==
  /\ ops[s].kind = "click" /\ ops[s].pc = "fallback"
  /\ ops' = [ops EXCEPT ![s] = IdleOp]
  /\ notifications' = (notifications \cup {Fallback(ops[s].rid)}) \ {ops[s].rid}
  /\ UNCHANGED <<store, persisted, plan, alarms, badge, now, nextId, orphans>>
  /\ OpFrame /\ NoReceive

\* chrome.notifications.create rejects inside the catch branch: the
\* rejection leaves handleNotificationClick before the clear
ClickFallbackFails(s) ==
  /\ ops[s].kind = "click" /\ ops[s].pc = "fallback"
  /\ ops' = [ops EXCEPT ![s] = IdleOp]
  /\ UNCHANGED <<store, persisted, plan, alarms, notifications, badge, now, nextId, orphans>>
  /\ OpFrame /\ NoReceive

\* ------------------------------------------------------------------ Next
TaskStep(p) ==
  \/ ReconcileRead(p)
  \/ ReconcileGetAll(p)
  \/ ReconcileCreate(p)
  \/ ReconcileCreateFails(p)
  \/ OverdueRead(p)
  \/ OverdueNotify(p)
  \/ OverdueNotifyFails(p)
  \/ CleanupRead(p)
  \/ CleanupSave(p)
  \/ UpdateBadge(p)

Next ==
  \/ WorkerStart
  \/ \E id \in Ids : AlarmDropped(id)
  \/ BadgeCleared
  \/ Tick
  \/ ReceiveNoType
  \/ ReceiveUnknownType
  \/ \E p \in Tasks : TaskStep(p)
  \/ \E s \in Slots :
       \/ \E payload \in Payloads : ReceiveCreate(s, payload)
       \/ CreateAdmit(s)
       \/ CreateLimit(s)
       \/ CreateQuota(s)
       \/ CreateRead(s)
       \/ CreateSave(s)
       \/ CreateAlarm(s)
       \/ CreateAlarmFails(s)
       \/ \E id \in Ids : ReceiveComplete(s, id)
       \/ CompleteRead(s)
       \/ CompleteSave(s)
       \/ CompleteClear(s)
       \/ \E id \in Ids : ReceiveDelete(s, id)
       \/ DeleteRead(s)
       \/ DeleteSave(s)
       \/ DeleteClear(s)
       \/ Reply(s)
       \/ \E id \in Ids : AlarmFired(s, id)
       \/ AlarmLookup(s)
       \/ AlarmNotify(s)
       \/ AlarmNotifyFails(s)

Spec == Init /\ [][Next]_vars

\* the message and alarm handlers alone, on a worker that has started
NextHandlers ==
  \/ Tick
  \/ ReceiveNoType
  \/ ReceiveUnknownType
  \/ \E s \in Slots :
       \/ \E payload \in Payloads : ReceiveCreate(s, payload)
       \/ CreateAdmit(s)
       \/ CreateLimit(s)
       \/ CreateQuota(s)
       \/ CreateRead(s)
       \/ CreateSave(s)
       \/ CreateAlarm(s)
       \/ CreateAlarmFails(s)
       \/ \E id \in Ids : ReceiveComplete(s, id)
       \/ CompleteRead(s)
       \/ CompleteSave(s)
       \/ CompleteClear(s)
       \/ \E id \in Ids : ReceiveDelete(s, id)
       \/ DeleteRead(s)
       \/ DeleteSave(s)
       \/ DeleteClear(s)
       \/ Reply(s)
       \/ \E id \in Ids : AlarmFired(s, id)
       \/ AlarmLookup(s)
       \/ AlarmNotify(s)
       \/ AlarmNotifyFails(s)

SpecHandlers == InitHandlers /\ [][NextHandlers]_vars

\* an install / upgrade: the startup IIFE and the onInstalled listener together
InitInstall ==
  /\ Persisted
  /\ plan \in {NoPlan, FreePlan}
  /\ plan = FreePlan => PendingCount(store) <= TightLimit
  /\ running = FALSE
  /\ task = [t \in Tasks |-> IdleTask]
  /\ msgs = 0

NextInstall ==
  \/ InstallEvent
  \/ \E id \in Ids : AlarmDropped(id)
  \/ BadgeCleared
  \/ Tick
  \/ \E p \in Tasks : InitPlan(p) \/ TaskStep(p)
  \/ \E s \in Slots :
       \/ \E id \in Ids : AlarmFired(s, id)
       \/ AlarmLookup(s)
       \/ AlarmNotify(s)
       \/ AlarmNotifyFails(s)

SpecInstall == InitInstall /\ [][NextInstall]_vars

\* the worker is up and its startup sequence has reached cleanupExpiredCompleted
InitCleanup ==
  /\ Persisted
  /\ plan \in {FreePlan, PaidPlan}
  /\ plan = FreePlan => PendingCount(store) <= TightLimit
  /\ running = TRUE
  /\ task = [t \in Tasks |-> IF t = "startup" THEN BeginTask("cleanupRead") ELSE IdleTask]
  /\ msgs = MaxMessages

\* the rest of the startup sequence, with messages arriving meanwhile
NextCleanup ==
  \/ Tick
  \/ CleanupRead("startup")
  \/ CleanupSave("startup")
  \/ UpdateBadge("startup")
  \/ \E s \in Slots :
       \/ \E payload \in Payloads : ReceiveCreate(s, payload)
       \/ CreateAdmit(s)
       \/ CreateLimit(s)
       \/ CreateQuota(s)
       \/ CreateRead(s)
       \/ CreateSave(s)
       \/ CreateAlarm(s)
       \/ CreateAlarmFails(s)
       \/ \E id \in Ids : ReceiveComplete(s, id)
       \/ CompleteRead(s)
       \/ CompleteSave(s)
       \/ CompleteClear(s)
       \/ \E id \in Ids : ReceiveDelete(s, id)
       \/ DeleteRead(s)
       \/ DeleteSave(s)
       \/ DeleteClear(s)
       \/ Reply(s)

SpecCleanup == InitCleanup /\ [][NextCleanup]_vars

\* the popup lists the reminders while creates, completes and deletes go on
NextList ==
  \/ \E s \in Slots :
       \/ ReceiveList(s)
       \/ ListRead(s)
       \/ \E payload \in Payloads : ReceiveCreate(s, payload)
       \/ CreateAdmit(s)
       \/ CreateLimit(s)
       \/ CreateQuota(s)
       \/ CreateRead(s)
       \/ CreateSave(s)
       \/ CreateAlarm(s)
       \/ CreateAlarmFails(s)
       \/ \E id \in Ids : ReceiveComplete(s, id)
       \/ CompleteRead(s)
       \/ CompleteSave(s)
       \/ CompleteClear(s)
       \/ \E id \in Ids : ReceiveDelete(s, id)
       \/ DeleteRead(s)
       \/ DeleteSave(s)
       \/ DeleteClear(s)
       \/ Reply(s)

SpecList == InitHandlers /\ [][NextList]_vars

\* the worker is down and the timer facility has lost every wake-up
InitLost ==
  /\ store \in InitStores
  /\ persisted = (store # <<>>)
  /\ alarms = [i \in Ids |-> NULL]
  /\ notifications = {}
  /\ badge = ""
  /\ now = Now0
  /\ nextId = Len(store)
  /\ ops = [s \in Slots |-> IdleOp]
  /\ replies = 0
  /\ resp = NoResponse
  /\ orphans = {}
  /\ plan \in {NoPlan, FreePlan}
  /\ plan = FreePlan => PendingCount(store) <= TightLimit
  /\ running = FALSE
  /\ task = [t \in Tasks |-> IdleTask]
  /\ msgs = 0

\* a process start with the wake-ups it registers firing meanwhile
NextStart ==
  \/ WorkerStart
  \/ Tick
  \/ \E p \in Tasks : TaskStep(p)
  \/ \E s \in Slots :
       \/ \E id \in Ids : AlarmFired(s, id)
       \/ AlarmLookup(s)
       \/ AlarmNotify(s)
       \/ AlarmNotifyFails(s)

SpecStart == InitLost /\ [][NextStart]_vars

\* the alarm handler, with wake-ups of other names sharing the facility
NextAlarms ==
  \/ Tick
  \/ \E s \in Slots :
       \/ \E id \in Ids : AlarmFired(s, id)
       \/ AlarmLookup(s)
       \/ AlarmNotify(s)
       \/ AlarmNotifyFails(s)
       \/ OtherAlarmFired(s)
       \/ AlarmIgnored(s)

SpecAlarms == InitHandlers /\ [][NextAlarms]_vars

\* the message handlers on a store whose reads and writes can be rejected
NextFaults ==
  \/ \E s \in Slots :
       \/ StorageRejects(s)
       \/ ReceiveList(s)
       \/ ListRead(s)
       \/ \E payload \in Payloads : ReceiveCreate(s, payload)
       \/ CreateAdmit(s)
       \/ CreateLimit(s)
       \/ CreateQuota(s)
       \/ CreateRead(s)
       \/ CreateSave(s)
       \/ CreateAlarm(s)
       \/ CreateAlarmFails(s)
       \/ \E id \in Ids : ReceiveComplete(s, id)
       \/ CompleteRead(s)
       \/ CompleteSave(s)
       \/ CompleteClear(s)
       \/ \E id \in Ids : ReceiveDelete(s, id)
       \/ DeleteRead(s)
       \/ DeleteSave(s)
       \/ DeleteClear(s)
       \/ Reply(s)

SpecFaults == InitHandlers /\ [][NextFaults]_vars

\* wake-ups fire and the user clicks the alerts, while reminders are deleted
NextClick ==
  \/ Tick
  \/ \E s \in Slots :
       \/ \E id \in Ids : AlarmFired(s, id)
       \/ AlarmLookup(s)
       \/ AlarmNotify(s)
       \/ AlarmNotifyFails(s)
       \/ \E id \in Ids : NotificationClicked(s, id)
       \/ ClickLookup(s)
       \/ ClickNavigate(s)
       \/ ClickNavigateFails(s)
       \/ ClickFallback(s)
       \/ ClickFallbackFails(s)
       \/ \E id \in Ids : ReceiveDelete(s, id)
       \/ DeleteRead(s)
       \/ DeleteSave(s)
       \/ DeleteClear(s)
       \/ Reply(s)

SpecClick == InitHandlers /\ [][NextClick]_vars

\* payloads handed to validateCreateReminderPayload
ChatIdInputs ==
  {JsUndefined, JsNumber(5), JsString(<<>>), JsString(<<" ">>),
   JsString(<<"5", "@", "c", ".", "u", "s">>), JsString(<<"1", "2", "@", "g", ".", "u", "s">>),
   JsString(<<"@", "c", ".", "u", "s">>), JsString(<<"5", "@", "c", ".", "u", "s", "x">>),
   JsString(<<"a", "_", "1">>), JsString(<<"A", " ", "b">>)}

ChatNameInputs ==
  {JsUndefined, JsString(<<>>), JsString(<<" ", " ">>), JsString(<<" ", "A", " ">>)}

TimeInputs ==
  {JsUndefined, JsNull, JsNaN, JsInfinity, JsMinusInfinity, JsString(<<"9", "9">>),
   JsNumber(Now0 - 1), JsNumber(Now0), JsNumber(Now0 + 1), JsNumber(Now0 + 2)}

ValidatorInputs ==
  [type : {"object"}, chatId : ChatIdInputs, chatName : ChatNameInputs,
   scheduledTime : TimeInputs]

\* a caller holds a payload and is about to validate it
InitValidate ==
  /\ store = <<>>
  /\ persisted = FALSE
  /\ plan = FreePlan
  /\ alarms = [i \in Ids |-> NULL]
  /\ notifications = {}
  /\ badge = ""
  /\ now = Now0
  /\ nextId = 0
  /\ running = TRUE
  /\ \E input \in ValidatorInputs :
       ops = [s \in Slots |-> IF s = 1
                               THEN [IdleOp EXCEPT !.kind = "validate", !.pc = "input",
                                                   !.payload = input]
                               ELSE IdleOp]
  /\ task = [t \in Tasks |-> IF t = "startup" THEN [IdleTask EXCEPT !.pc = "done"] ELSE IdleTask]
  /\ msgs = 0
  /\ replies = 0
  /\ resp = NoResponse
  /\ orphans = {}

\* const validation = validateCreateReminderPayload(payload)
Validate(s) ==
  /\ ops[s].kind = "validate" /\ ops[s].pc = "input"
  /\ LET v == validateCreateReminderPayload(ops[s].payload, now)
     IN /\ ops' = [ops EXCEPT ![s].pc = "validated", ![s].err = IF v = "ok" THEN "" ELSE v,
                     ![s].seen = now]
  /\ UNCHANGED <<store, persisted, plan, alarms, notifications, badge, now, nextId, orphans>>
  /\ OpFrame /\ NoReceive

NextValidate == Tick \/ \E s \in Slots : Validate(s)

SpecValidate == InitValidate /\ [][NextValidate]_vars

\* a caller of the storage service, on an area with or without the key
InitStorage ==
  /\ store \in InitStores
  /\ persisted \in BOOLEAN
  /\ ~persisted => store = <<>>
  /\ plan = FreePlan
  /\ alarms = [i \in Ids |-> NULL]
  /\ notifications = {}
  /\ badge = BadgeText(store)
  /\ now = Now0
  /\ nextId = Len(store)
  /\ running = TRUE
  /\ ops = [s \in Slots |-> IdleOp]
  /\ task = [t \in Tasks |-> IF t = "startup" THEN [IdleTask EXCEPT !.pc = "done"] ELSE IdleTask]
  /\ msgs = 0
  /\ replies = 0
  /\ resp = NoResponse
  /\ orphans = {}

\* const reminders = await StorageService.getReminders()
StorageGet(s) ==
  /\ ops[s].kind \in {"idle", "storage"} /\ ops[s].pc \in {"idle", "saved"}
  /\ ops' = [ops EXCEPT ![s] = [IdleOp EXCEPT !.kind = "storage", !.pc = "got",
                                              !.snap = getReminders]]
  /\ UNCHANGED <<store, persisted, plan, alarms, notifications, badge, now, nextId, orphans>>
  /\ OpFrame /\ NoReceive

\* await StorageService.saveReminders(c)
StorageSave(s, c) ==
  /\ ops[s].kind = "idle"
  /\ saveReminders(c)
  /\ ops' = [ops EXCEPT ![s] = [IdleOp EXCEPT !.kind = "storage", !.pc = "saved", !.snap = c]]
  /\ UNCHANGED <<plan, alarms, notifications, now, nextId>>
  /\ OpFrame /\ NoReceive

\* await StorageService.saveReminders(reminders), with what getReminders returned
StorageSaveBack(s) ==
  /\ ops[s].kind = "storage" /\ ops[s].pc = "got"
  /\ saveReminders(ops[s].snap)
  /\ ops' = [ops EXCEPT ![s] = IdleOp]
  /\ UNCHANGED <<plan, alarms, notifications, now, nextId>>
  /\ OpFrame /\ NoReceive

\* one caller at a time uses the storage service
NextStorage ==
  \/ StorageGet(1)
  \/ \E c \in InitStores : StorageSave(1, c)
  \/ StorageSaveBack(1)

SpecStorage == InitStorage /\ [][NextStorage]_vars

MsgKinds == {"create", "complete", "delete"}

TypeOK ==
  /\ persisted \in BOOLEAN
  /\ ~persisted => store = <<>>
  /\ nextId \in 0..MaxIds
  /\ msgs \in 0..(MaxMessages + BootMessages)
  /\ running \in BOOLEAN
  /\ replies \in 0..(MaxMessages + BootMessages)
  /\ resp.success \in BOOLEAN
  /\ orphans \subseteq Ids

\* ------------------------------------------------------------------ claims

\* C1: on a free plan with limit L, at the instant a create returns
\* successfully the persisted collection holds at most L pending reminders.
C1_AdmissionInvariant ==
  \A s \in Slots :
    (ops[s].kind = "create" /\ ops[s].pc = "resolved"
       /\ getUserPlan(plan).activeReminderLimit # PAID_ACTIVE_REMINDER_LIMIT)
      => ops[s].seen <= getUserPlan(plan).activeReminderLimit

\* C2: the handlers' read-modify-write cycles do not interleave, so the write
\* of a create, complete or delete handler never drops or reverts a reminder
\* that another handler has persisted: every other record of the collection
\* is still there, unchanged, after the write.
C2_NoLostUpdate ==
  [][\A s \in Slots :
       (ops[s].kind \in MsgKinds /\ ops[s].pc = "save" /\ ops'[s].pc # "save")
         => \A i \in 1..Len(store) :
              store[i].id # ops[s].rid => \E j \in 1..Len(store') : store'[j] = store[i]]_vars

\* C3: when a reconcileAlarms() that found every wake-up lost has completed
\* and no message handler is in flight, it has registered a wake-up for
\* exactly the reminders that were pending in the collection it read, and no
\* completed reminder of the persisted collection has a wake-up.
C3_ReconcileRestores ==
  \A p \in Tasks :
    (/\ task[p].pc = AfterReconcile(p)
     /\ task[p].names = {}
     /\ \A s \in Slots : ops[s].kind \notin MsgKinds)
      => /\ task[p].registered = PendingIds(task[p].snap)
         /\ \A i \in 1..Len(store) :
              store[i].status = COMPLETED => alarms[store[i].id] = NULL

\* C4: a step of the startup sequence, of the alarm handler, of the clock or
\* of the external facility (anything but a create, complete or delete
\* handler) never changes a reminder's status, and a pending reminder is
\* still in the collection, pending, after it.
C4_OverdueNonDestructive ==
  [][(~ \E s \in Slots : ops'[s] # ops[s] /\ ops[s].kind \in MsgKinds)
       => /\ \A i \in 1..Len(store) :
               store[i].status = PENDING
                 => \E j \in 1..Len(store') :
                      store'[j].id = store[i].id /\ store'[j].status = PENDING
          /\ \A i \in 1..Len(store) : \A j \in 1..Len(store') :
               store'[j].id = store[i].id => store'[j].status = store[i].status]_vars

\* C5: a complete handler whose read finds the reminder completed rejects
\* with AlreadyCompletedError, and no step of a complete handler for an id
\* changes the completedAt of the persisted reminder with that id once it
\* is completed.
C5_IdempotentCompletion ==
  [][\A s \in Slots :
       (ops[s].kind = "complete" /\ ops'[s] # ops[s])
         => /\ (ops[s].pc = "read" /\ FindIndex(store, ops[s].rid) # 0
                  /\ store[FindIndex(store, ops[s].rid)].status = COMPLETED)
                 => /\ ops'[s].pc = "rejected"
                    /\ ops'[s].err = "AlreadyCompletedError"
                    /\ store' = store
                    /\ alarms' = alarms
            /\ \A i \in 1..Len(store) : \A j \in 1..Len(store') :
                 (store[i].id = ops[s].rid /\ store[i].status = COMPLETED
                    /\ store'[j].id = ops[s].rid)
                   => store'[j].completedAt = store[i].completedAt]_vars

\* C6: in the persisted collection a reminder is completed if and only if
\* its completedAt is not null.
C6_CompletedIffCompletedAt ==
  \A i \in 1..Len(store) :
    (store[i].status = COMPLETED) <=> (store[i].completedAt # NULL)

\* the collection holds a reminder created and one completed in this run
C6_Witness ==
  \E i, j \in 1..Len(store) :
    /\ store[i].status = COMPLETED /\ store[i].completedAt >= Now0
    /\ store[j].status = PENDING /\ store[j].createdAt >= Now0

\* C7: when the wake-up reminder-<id> fires, the handler asks for an alert
\* if and only if its lookup finds a reminder with that id that is pending;
\* otherwise it ends, and in no case does it change the store, the plan or
\* the schedule, or raise an alert for another reminder.
C7_AlertIffPending ==
  [][\A s \in Slots :
       /\ (ops[s].kind = "alarm" /\ ops[s].pc = "lookup" /\ ops'[s] # ops[s])
            => /\ (ops'[s].pc = "notify") <=> PendingIn(store, ops[s].rid)
               /\ ~PendingIn(store, ops[s].rid) => ops'[s] = IdleOp
               /\ notifications' = notifications
               /\ store' = store /\ alarms' = alarms /\ plan' = plan
       /\ (ops[s].kind = "alarm" /\ ops[s].pc = "notify" /\ ops'[s] # ops[s])
            => /\ notifications' \subseteq notifications \cup {ops[s].rid}
               /\ store' = store /\ alarms' = alarms /\ plan' = plan]_vars

\* one fired wake-up found its reminder pending and asks for the alert, while
\* another fired wake-up is about to look up a reminder that is gone or completed
C7_Witness ==
  \E s, t \in Slots :
    /\ s # t
    /\ ops[s].kind = "alarm" /\ ops[s].pc = "notify"
    /\ ops[t].kind = "alarm" /\ ops[t].pc = "lookup"
    /\ ~PendingIn(store, ops[t].rid)

\* C8: when chrome.alarms.create rejects in create, after the store write,
\* the handler rejects without writing the store, and the reminder it wrote
\* is in the persisted collection, pending, at that moment.
C8_NoRollback ==
  [][\A s \in Slots :
       (ops[s].kind = "create" /\ ops[s].pc = "alarm" /\ ops'[s].pc = "rejected")
         => /\ store' = store
            /\ \E i \in 1..Len(store') :
                 store'[i] = ops[s].rem /\ store'[i].status = PENDING]_vars

\* the steps of a sequence that come after its reconcileAlarms() has returned
PastReconcile(p) ==
  \/ task[p].pc \in {"cleanupRead", "cleanupSave", "badge", "done"}
  \/ p = "startup" /\ task[p].pc \in {"overdueRead", "overdueNotify"}
  \/ task[p].pc = "failed" /\ task[p].err = "notifications.create"

C10_OverdueAllDispatched ==
  \A p \in Tasks :
    task[p].pc \in {"cleanupRead", "failed"} => task[p].scanned \subseteq task[p].dispatched

\* C11: a create whose payload fails validation is rejected with
\* ValidationError on arrival; a create that reads a pending count at the
\* limit of a limited plan is rejected with PlanLimitError, whose message
\* names that limit; and no step of a create up to and including such a
\* rejection writes the store or touches a wake-up.
C11_FailedCreateWritesNothing ==
  [][\A s \in Slots :
       (ops'[s] # ops[s] /\ (ops[s].kind = "create" \/ ops'[s].kind = "create"))
         => /\ (ops[s].kind = "idle" /\ ops'[s].payload.scheduledTime <= now)
                 => ops'[s].pc = "rejected" /\ ops'[s].err = "ValidationError"
            /\ (ops[s].pc = "admit"
                  /\ getUserPlan(plan).activeReminderLimit # PAID_ACTIVE_REMINDER_LIMIT
                  /\ PendingCount(store) >= getUserPlan(plan).activeReminderLimit)
                 => ops'[s].pc = "limit"
            /\ ops[s].pc = "limit"
                 => /\ ops'[s].pc = "rejected" /\ ops'[s].err = "PlanLimitError"
                    /\ ops'[s].seen = getUserPlan(plan).activeReminderLimit
            /\ (ops[s].pc \in {"idle", "admit", "limit"}
                  \/ ops[s].err \in {"ValidationError", "PlanLimitError"})
                 => store' = store /\ alarms' = alarms]_vars

\* one create has been refused for its time, another for the plan limit,
\* and the collection still holds exactly the limit of pending reminders
C11_Witness ==
  \E s, t \in Slots :
    /\ ops[s].kind = "create" /\ ops[s].pc = "rejected" /\ ops[s].err = "ValidationError"
    /\ ops[t].kind = "create" /\ ops[t].pc = "rejected" /\ ops[t].err = "PlanLimitError"
    /\ ops[t].seen = PendingCount(store)
    /\ PendingCount(store) > 0

\* C12: the store write of a create appends exactly its new record (fresh
\* id, pending, completedAt null, scheduledTime as requested) to the
\* persisted collection, every other record staying as it is and in place,
\* and its scheduling step registers reminder-<id> at scheduledTime.
C12_CreateAppendsOne ==
  [][\A s \in Slots :
       (ops[s].kind = "create" /\ ops'[s] # ops[s])
         => /\ ops[s].pc = "save"
                 => /\ store' = Append(store, ops[s].rem)
                    /\ ops[s].rem.id \notin IdsOf(store)
                    /\ ops[s].rem.status = PENDING
                    /\ ops[s].rem.completedAt = NULL
                    /\ ops[s].rem.scheduledTime = ops[s].payload.scheduledTime
            /\ (ops[s].pc = "alarm" /\ ops'[s].pc = "resolved")
                 => alarms' = [alarms EXCEPT ![ops[s].rem.id] = ops[s].rem.scheduledTime]]_vars

\* C13: the store write of a complete changes only the record with its id,
\* to status completed with the completedAt the handler took; its last step
\* leaves no wake-up for that id and touches no other; a complete of an id
\* that is not in the collection rejects with NotFoundError and changes
\* neither the store nor the schedule.
C13_CompleteOnlyTarget ==
  [][\A s \in Slots :
       (ops[s].kind = "complete" /\ ops'[s] # ops[s])
         => /\ ops[s].pc = "save"
                 => /\ Len(store') = Len(store)
                    /\ \A i \in 1..Len(store) :
                         IF store[i].id = ops[s].rid
                         THEN store'[i] = [store[i] EXCEPT !.status = COMPLETED,
                                             !.completedAt = ops[s].rem.completedAt]
                         ELSE store'[i] = store[i]
            /\ ops[s].pc = "clear"
                 => alarms' = [alarms EXCEPT ![ops[s].rid] = NULL]
            /\ (ops[s].pc = "read" /\ FindIndex(store, ops[s].rid) = 0)
                 => /\ ops'[s].pc = "rejected" /\ ops'[s].err = "NotFoundError"
                    /\ store' = store /\ alarms' = alarms
            /\ ops[s].pc = "rejected" => store' = store /\ alarms' = alarms]_vars

\* C14: the store write of a delete removes the record with its id, whatever
\* its status, and leaves the other records as they are and in order; its
\* last step cancels reminder-<id> only; a delete of an id that is not in
\* the collection rejects with NotFoundError and changes neither the store
\* nor the schedule.
C14_DeleteOnlyTarget ==
  [][\A s \in Slots :
       (ops[s].kind = "delete" /\ ops'[s] # ops[s])
         => /\ ops[s].pc = "save"
                 => store' = SelectSeq(store, LAMBDA r : r.id # ops[s].rid)
            /\ ops[s].pc = "clear"
                 => alarms' = [alarms EXCEPT ![ops[s].rid] = NULL]
            /\ (ops[s].pc = "read" /\ FindIndex(store, ops[s].rid) = 0)
                 => /\ ops'[s].pc = "rejected" /\ ops'[s].err = "NotFoundError"
                    /\ store' = store /\ alarms' = alarms
            /\ ops[s].pc = "rejected" => store' = store /\ alarms' = alarms]_vars

\* C15: in every step, a record that stays in the collection keeps its id,
\* chatId, chatName, scheduledTime and createdAt, a completed record stays
\* completed with the same completedAt, and an id that enters the
\* collection is the id of the create that is writing it for the first time.
C15_OneWayLifecycle ==
  [][/\ \A i \in 1..Len(store) : \A j \in 1..Len(store') :
          store'[j].id = store[i].id
            => /\ store'[j].chatId = store[i].chatId
               /\ store'[j].chatName = store[i].chatName
               /\ store'[j].scheduledTime = store[i].scheduledTime
               /\ store'[j].createdAt = store[i].createdAt
               /\ store[i].status = COMPLETED
                    => /\ store'[j].status = COMPLETED
                       /\ store'[j].completedAt = store[i].completedAt
     /\ \A id \in IdsOf(store') \ IdsOf(store) :
          \E s \in Slots : /\ ops[s].kind = "create" /\ ops[s].pc = "save"
                           /\ ops[s].rid = id]_vars

\* C16: the step in which a UI context acts (it sends a message) changes
\* neither the store, the plan nor the schedule; the reminder collection
\* changes only in the save step of a create, complete or delete handler or
\* of cleanupExpiredCompleted in the running service worker; a wake-up is
\* set only by the scheduling step of a create or of reconcileAlarms, and
\* removed only by a complete or delete handler or by the timer facility
\* itself (it fired, or was dropped while the worker was down).
C16_SingleWriter ==
  [][/\ msgs' # msgs
          => /\ store' = store /\ alarms' = alarms /\ plan' = plan
             /\ \/ \E s \in Slots : ops[s].kind = "idle" /\ ops'[s].kind \in MsgKinds
                \/ replies' = replies + 1
     /\ store' # store
          => /\ running
             /\ \/ \E s \in Slots : /\ ops[s].kind \in MsgKinds /\ ops[s].pc = "save"
                                    /\ ops'[s] # ops[s]
                \/ \E p \in Tasks : task[p].pc = "cleanupSave" /\ task'[p] # task[p]
     /\ \A id \in Ids :
          /\ (alarms'[id] # alarms[id] /\ alarms'[id] # NULL)
               => /\ running
                  /\ \/ \E s \in Slots : /\ ops[s].kind = "create" /\ ops[s].pc = "alarm"
                                         /\ ops[s].rid = id /\ ops'[s] # ops[s]
                     \/ \E p \in Tasks : task[p].pc = "reconcileCreate" /\ task'[p] # task[p]
          /\ (alarms'[id] # alarms[id] /\ alarms'[id] = NULL)
               => \/ ~running
                  \/ \E s \in Slots :
                       \/ /\ ops[s].kind \in {"complete", "delete"} /\ ops[s].pc = "clear"
                          /\ ops[s].rid = id /\ ops'[s] # ops[s]
                       \/ /\ ops[s].kind = "idle" /\ ops'[s].kind = "alarm"
                          /\ ops'[s].rid = id]_vars

\* two messages of UI contexts have been turned into writes by the service
\* worker: a create has persisted its record and a complete its completion
C16_Witness ==
  \E s, t \in Slots :
    /\ msgs = 0
    /\ ops[s].kind = "create" /\ ops[s].pc = "alarm"
    /\ ops[s].rem \in Range(store)
    /\ ops[t].kind = "complete" /\ ops[t].pc = "clear"
    /\ ops[t].rem \in Range(store)

Expired(rs, t) ==
  {r \in Range(rs) : r.status = COMPLETED /\ t - r.completedAt > COMPLETED_RETENTION_DAYS}

\* C18: cleanupExpiredCompleted keeps, of the collection it reads, exactly
\* the records that are not completed more than 30 days ago (a record
\* completed exactly 30 days ago is kept), writes only when it removes
\* something, and its write takes out of the persisted collection only
\* such expired completed records: no pending record goes, no record is
\* changed and none is added.
C18_CleanupExact ==
  [][\A p \in Tasks :
       /\ (task[p].pc = "cleanupRead" /\ task'[p] # task[p])
            => /\ store' = store
               /\ Expired(store, now) = {} => task'[p].pc = "badge"
               /\ Expired(store, now) # {}
                    => /\ task'[p].pc = "cleanupSave"
                       /\ Range(task'[p].snap) = Range(store) \ Expired(store, now)
                       /\ Len(task'[p].snap) = Len(store) - Cardinality(Expired(store, now))
       /\ (task[p].pc = "cleanupSave" /\ task'[p] # task[p])
            => /\ Range(store') \subseteq Range(store)
               /\ Range(store) \ Range(store') \subseteq Expired(store, now)]_vars

\* C19: for the plan and the collection of every reachable state,
\* canCreateReminder is true exactly when the limit is the unlimited
\* sentinel -1 or fewer reminders than the limit have status pending, and
\* getPlanStatus reports that number of pending reminders, the plan's limit
\* and the same canCreateReminder value.
C19_AdmissionRule ==
  LET limit == IF plan = NoPlan THEN FREE_ACTIVE_REMINDER_LIMIT ELSE plan.activeReminderLimit
      pending == Cardinality({i \in 1..Len(store) : store[i].status = "pending"})
  IN /\ canCreateReminder(plan, store) <=> (limit = -1 \/ pending < limit)
     /\ getPlanStatus(plan, store).currentPendingCount = pending
     /\ getPlanStatus(plan, store).activeReminderLimit = limit
     /\ getPlanStatus(plan, store).canCreateReminder = canCreateReminder(plan, store)

\* a free plan at its limit, with a completed reminder stored besides the
\* pending ones, has refused a create
C19_Witness ==
  /\ plan = FreePlan
  /\ PendingCount(store) = plan.activeReminderLimit
  /\ \E i \in 1..Len(store) : store[i].status = COMPLETED
  /\ ~canCreateReminder(plan, store)
  /\ \E s \in Slots : ops[s].kind = "create" /\ ops[s].err = "PlanLimitError"

\* C20: on a limited plan, a create whose admission check runs when the
\* only other message so far, a complete, has been answered with success
\* is admitted: the completed reminder no longer counts toward the limit
\* (the collection held at most the limit of pending reminders before).
C20_CompletionFreesSlot ==
  [][\A s \in Slots :
       (/\ ops[s].kind = "create" /\ ops[s].pc = "admit" /\ ops'[s] # ops[s]
        /\ msgs = 0 /\ replies = MaxMessages - 1
        /\ resp.success /\ resp.data = "complete")
         => ops'[s].pc = "quota"]_vars

\* C21: the object a list returns holds every reminder of the collection it
\* read, each once, ordered by non-decreasing scheduledTime, with the plan
\* type, the limit, the number of pending reminders and the admission
\* verdict (canCreateReminder) of the plan status; the step writes nothing.
C21_ListSortedWithStatus ==
  [][\A s \in Slots :
       (ops[s].kind = "list" /\ ops[s].pc = "read" /\ ops'[s] # ops[s])
         => LET r == ops'[s].result
            IN /\ Len(r.reminders) = Len(store)
               /\ \A i \in 1..Len(store) :
                    Cardinality({j \in 1..Len(r.reminders) : r.reminders[j] = store[i]})
                      = Cardinality({j \in 1..Len(store) : store[j] = store[i]})
               /\ \A i \in 1..(Len(r.reminders) - 1) :
                    r.reminders[i].scheduledTime <= r.reminders[i+1].scheduledTime
               /\ r.planType = getUserPlan(plan).planType
               /\ r.planLimit = getUserPlan(plan).activeReminderLimit
               /\ r.pendingCount = PendingCount(store)
               /\ "canCreateReminder" \in DOMAIN r
               /\ store' = store /\ plan' = plan /\ alarms' = alarms]_vars

\* the decimal numeral of a count, empty for 0
Decimal(n) == IF n = 0 THEN "" ELSE ToString(n)

\* C22: a step that changes the reminder collection, and the last step of
\* the process-start sequence, leave the badge at the decimal count of the
\* pending reminders of the persisted collection (empty for 0); and whenever
\* the worker is up with no handler and no start sequence in flight, the
\* badge is that count.
C22_BadgeIsPendingCount ==
  [][/\ store' # store => badge' = Decimal(PendingCount(store'))
     /\ \A p \in Tasks :
          (task[p].pc = "badge" /\ task'[p] # task[p])
            => task'[p].pc = "done" /\ badge' = Decimal(PendingCount(store'))
     /\ (running' /\ (\A s \in Slots : ops'[s] = IdleOp) /\ (\A p \in Tasks : TaskEnded(p)'))
          => badge' = Decimal(PendingCount(store'))]_vars

\* C23: the step in which createReminderNotification settles, in the alarm
\* handler or in the overdue check of the start sequence, changes neither
\* the store nor the schedule and raises no alert but the one asked for;
\* when it fails the handler (the start sequence) ends there, without
\* another attempt, and the reminder, if it is pending in the collection
\* with scheduledTime <= now, is among the reminders getOverdueReminders
\* returns; and every overdue scan returns exactly the pending reminders
\* with scheduledTime <= now.
C23_AlertFailureChangesNothing ==
  [][/\ \A s \in Slots :
          (ops[s].kind = "alarm" /\ ops[s].pc = "notify" /\ ops'[s] # ops[s])
            => /\ ops'[s] = IdleOp
               /\ store' = store /\ alarms' = alarms /\ plan' = plan
               /\ notifications' \subseteq notifications \cup {ops[s].rid}
               /\ (PendingIn(store', ops[s].rid)
                     /\ store'[FindIndex(store', ops[s].rid)].scheduledTime <= now')
                    => ops[s].rid \in IdsOf(getOverdueReminders(store', now'))
     /\ \A p \in Tasks :
          /\ (task[p].pc = "overdueNotify" /\ task'[p] # task[p])
               => /\ store' = store /\ alarms' = alarms /\ plan' = plan
                  /\ notifications' \subseteq notifications \cup {Head(task[p].todo).id}
                  /\ task'[p].pc = "failed"
                       => /\ notifications' = notifications
                          /\ task'[p].todo = task[p].todo
                          /\ (PendingIn(store', Head(task[p].todo).id)
                                /\ Head(task[p].todo).scheduledTime <= now')
                               => Head(task[p].todo).id \in IdsOf(getOverdueReminders(store', now'))
          /\ (task[p].pc = "overdueRead" /\ task'[p] # task[p])
               => task'[p].scanned =
                    {store[i].id : i \in {j \in 1..Len(store) :
                        store[j].status = "pending" /\ store[j].scheduledTime <= now}}]_vars

\* the alert for an overdue reminder failed in the start sequence: the
\* sequence has ended, no alert is shown, and the reminder is still pending
\* in the collection and among the overdue reminders
C23_Witness ==
  /\ task["startup"].pc = "failed"
  /\ task["startup"].err = "notifications.create"
  /\ LET id == Head(task["startup"].todo).id
     IN /\ id \notin notifications
        /\ PendingIn(store, id)
        /\ id \in IdsOf(getOverdueReminders(store, now))

\* C24: no step of the click handler for the alert reminder-<id> changes
\* the store, the plan or the schedule; when its lookup finds the reminder
\* it attempts the navigation; when the navigation has failed its next
\* step raises the alert fallback-<id>; and when the handler ends, the
\* alert reminder-<id> is no longer shown.
C24_ClickClearsAlert ==
  [][\A s \in Slots :
       (ops[s].kind = "click" /\ ops'[s] # ops[s])
         => /\ store' = store /\ plan' = plan /\ alarms' = alarms
            /\ (ops[s].pc = "lookup" /\ FindIndex(store, ops[s].rid) # 0)
                 => ops'[s].pc = "navigate"
            /\ ops[s].pc = "navigate" => ops'[s].pc = "fallback" \/ ops'[s] = IdleOp
            /\ ops[s].pc = "fallback" => (0 - ops[s].rid) \in notifications'
            /\ ops'[s] = IdleOp => ops[s].rid \notin notifications']_vars

\* C25: when a process-start or install/upgrade sequence has run to its
\* end, a plan record is persisted; the plan record is written only when
\* none was persisted, and then with the default (free, limit 5).
C25_DefaultPlanPersisted ==
  [][/\ plan' # plan => plan = NoPlan /\ plan' = DEFAULT_PLAN
     /\ \A p \in Tasks :
          (task'[p].pc = "done" /\ task[p].pc # "done")
            => plan' # NoPlan]_vars

\* a number that is neither NaN nor an infinity
FiniteNumber(v) == v.type = "number" /\ v.special = ""

\* C26: validateCreateReminderPayload rejects a payload exactly when its
\* chatId is missing, empty or matches neither /^\d+@(c\.us|g\.us)$/ nor
\* /^[a-z0-9_]+$/, or its chatName is missing or empty after trimming, or
\* its scheduledTime is not a finite number or is <= the clock (equal is
\* rejected); the error is the message of one check that fails on the
\* payload, and the call changes nothing.
C26_ValidatorRejects ==
  [][\A s \in Slots :
       (ops[s].kind = "validate" /\ ops[s].pc = "input" /\ ops'[s] # ops[s])
         => LET p == ops[s].payload
                badChatId == \/ p.chatId.type # "string"
                             \/ p.chatId.chars = <<>>
                             \/ ~JID_PATTERN(p.chatId.chars) /\ ~SLUG_PATTERN(p.chatId.chars)
                badChatName == \/ p.chatName.type # "string"
                               \/ \A i \in 1..Len(p.chatName.chars) : p.chatName.chars[i] = " "
                badTime == \/ ~FiniteNumber(p.scheduledTime)
                           \/ p.scheduledTime.num <= now
                err == ops'[s].err
            IN /\ err # "" <=> (badChatId \/ badChatName \/ badTime)
               /\ err \in {"Missing required field: chatId", "Invalid chat identifier"}
                    => badChatId
               /\ err = "Missing required field: chatName" => badChatName
               /\ err \in {"Missing required field: scheduledTime",
                           "Scheduled time must be a valid number",
                           "Reminder time must be in the future"} => badTime
               /\ err \in {"", "Missing required field: chatId", "Invalid chat identifier",
                           "Missing required field: chatName",
                           "Missing required field: scheduledTime",
                           "Scheduled time must be a valid number",
                           "Reminder time must be in the future"}
               /\ UNCHANGED <<store, persisted, plan, alarms, notifications, badge, now, nextId>>]_vars

C28_CheckOrder ==
  [][\A s \in Slots :
       (ops'[s] # ops[s] /\ (ops[s].kind = "create" \/ ops'[s].kind = "create"))
         => /\ (ops[s].kind = "idle" /\ ops'[s].payload.scheduledTime <= now)
                 => ops'[s].pc = "rejected" /\ ops'[s].err = "ValidationError"
            /\ (ops[s].pc = "admit"
                  /\ getUserPlan(plan).activeReminderLimit # PAID_ACTIVE_REMINDER_LIMIT
                  /\ PendingCount(store) >= getUserPlan(plan).activeReminderLimit)
                 => ops'[s].pc = "limit"
            /\ ops[s].pc = "limit"
                 => ops'[s].pc = "rejected" /\ ops'[s].err = "PlanLimitError"
            /\ ops[s].pc = "quota"
                 => IF EstimatedBytes(store) * 10 >= MAX_BYTES * 9
                    THEN ops'[s].pc = "rejected" /\ ops'[s].err = "StorageQuotaError"
                    ELSE ops'[s].pc = "read"
            /\ ops[s].pc \in {"idle", "admit", "limit", "quota"}
                 => store' = store /\ alarms' = alarms
            /\ ops'[s].err = "StorageQuotaError" => ops[s].pc \in {"quota", "rejected"}]_vars

\* a create has been refused for lack of headroom: the collection of three
\* reminders is at 90% of the budget or more, none of them is the refused one
C28_Witness ==
  \E s \in Slots :
    /\ ops[s].kind = "create" /\ ops[s].pc = "rejected"
    /\ ops[s].err = "StorageQuotaError"
    /\ EstimatedBytes(store) * 10 >= MAX_BYTES * 9
    /\ ops[s].rid \notin IdsOf(store)
    /\ alarms[ops[s].rid] = NULL

\* C29: the cancelling step of a complete or a delete resolves the handler
\* whether or not a wake-up reminder-<id> exists, leaves no wake-up for
\* that id, and leaves every other wake-up and the store as they are.
C29_CancelIdempotent ==
  [][\A s \in Slots :
       (ops[s].kind \in {"complete", "delete"} /\ ops[s].pc = "clear" /\ ops'[s] # ops[s])
         => /\ ops'[s].pc = "resolved"
            /\ alarms'[ops[s].rid] = NULL
            /\ \A id \in Ids \ {ops[s].rid} : alarms'[id] = alarms[id]
            /\ store' = store]_vars

\* the wake-up of a reminder has fired and its alert is shown; the reminder
\* has then been completed or deleted with success, while another reminder
\* keeps its wake-up
C29_Witness ==
  \E s \in Slots :
    /\ ops[s].kind \in {"complete", "delete"} /\ ops[s].pc = "resolved"
    /\ ops[s].rid \in notifications
    /\ ~PendingIn(store, ops[s].rid)
    /\ \E id \in Ids \ {ops[s].rid} : alarms[id] # NULL /\ PendingIn(store, id)

\* C30: every reminder of the persisted collection has a scheduledTime
\* greater than its createdAt.
C30_ScheduledAfterCreated ==
  \A i \in 1..Len(store) : store[i].scheduledTime > store[i].createdAt

\* C31: when the store write of a create, a complete or a delete is rejected,
\* that step changes neither the persisted collection nor the wake-ups, the
\* operation has changed neither before it (so no wake-up is scheduled by the
\* create and none is cancelled by the complete or delete), and the operation
\* does nothing more than fail: its only further step is the failure answer.
C31_RejectedWriteChangesNothing ==
  [][\A s \in Slots :
       /\ (ops[s].kind \in MsgKinds /\ ops[s].pc = "save" /\ ops'[s].pc = "rejected")
            => /\ store' = store /\ persisted' = persisted
               /\ alarms' = alarms
               /\ ops'[s].err = "Error"
       /\ (ops[s].kind \in MsgKinds /\ ops'[s] # ops[s]
             /\ ops[s].pc \in {"admit", "limit", "quota", "read"})
            => store' = store /\ persisted' = persisted /\ alarms' = alarms
       /\ (ops[s].kind \in MsgKinds /\ ops[s].pc = "rejected" /\ ops'[s] # ops[s])
            => /\ ops'[s] = IdleOp
               /\ ~resp'.success
               /\ store' = store /\ persisted' = persisted /\ alarms' = alarms]_vars

\* the write of a complete has been rejected: the reminder is still pending
\* in the collection and its wake-up is still registered
C31_Witness ==
  \E s \in Slots :
    /\ ops[s].kind = "complete" /\ ops[s].pc = "rejected" /\ ops[s].err = "Error"
    /\ ops[s].snap # <<>>
    /\ PendingIn(store, ops[s].rid)
    /\ alarms[ops[s].rid] # NULL

\* C32: no step of reconcileAlarms writes the reminder collection or the plan
\* record or removes a wake-up, and every wake-up it registers is for a
\* reminder that is pending in the collection and has no active wake-up at
\* that moment (an active wake-up is never registered again).
C32_ReconcileOnlyAddsMissing ==
  [][\A p \in Tasks :
       (task[p].pc \in {"reconcileRead", "reconcileGetAll", "reconcileCreate"}
          /\ task'[p] # task[p])
         => /\ store' = store /\ persisted' = persisted /\ plan' = plan
            /\ \A id \in Ids : alarms[id] # NULL => alarms'[id] = alarms[id]
            /\ \A id \in task'[p].registered \ task[p].registered :
                 /\ alarms[id] = NULL
                 /\ PendingIn(store, id)]_vars

\* C33: whenever no handler and no startup or install sequence is in flight,
\* every registered wake-up reminder-<id> refers to a reminder that is in
\* the collection with status pending.
C33_WakeUpsOnlyForPending ==
  InFlight = 0 => \A id \in Ids : alarms[id] # NULL => PendingIn(store, id)

\* C34: the write of cleanupExpiredCompleted in a startup or install sequence
\* loses nothing that a handler persisted while the sequence was in flight:
\* every pending reminder of the collection (in particular one just created)
\* is still pending in it after the write, every completed reminder that is
\* kept is still completed with the same completedAt, and a reminder that
\* was deleted is not back.
C34_SequenceWriteKeepsHandlerWrites ==
  [][\A p \in Tasks :
       (task[p].pc = "cleanupSave" /\ task'[p].pc # "cleanupSave")
         => /\ \A i \in 1..Len(store) :
                 store[i].status = PENDING => PendingIn(store', store[i].id)
            /\ \A j \in 1..Len(store') :
                 /\ FindIndex(store, store'[j].id) # 0
                 /\ store[FindIndex(store, store'[j].id)].status = store'[j].status
                 /\ store[FindIndex(store, store'[j].id)].completedAt = store'[j].completedAt]_vars

\* C35: in the process-start sequence, the step in which the alert request
\* for an overdue reminder settles, successfully or not, is followed by the
\* request for the next overdue reminder or, after the last one, by
\* cleanupExpiredCompleted: the sequence does not end there.
C35_AlertFailureDoesNotStopStartup ==
  [][\A p \in Tasks :
       (task[p].pc = "overdueNotify" /\ task'[p] # task[p])
         => /\ task'[p].pc = IF Len(task[p].todo) > 1 THEN "overdueNotify" ELSE "cleanupRead"
            /\ task'[p].todo = Tail(task[p].todo)]_vars

\* C36: in a process start that finds no wake-up registered, the alert of
\* an overdue reminder is not requested twice: the alarm handler is never
\* requesting it (createReminderNotification issued for a fired wake-up,
\* which reconcileAlarms registered in this start) when the overdue scan of
\* that start has requested it as well, with no request of the scan failing.
C36_OverdueAlertedOnce ==
  \A p \in Tasks : \A s \in Slots :
    ~(/\ ops[s].kind = "alarm" /\ ops[s].pc = "notify"
      /\ ops[s].rid \in task[p].dispatched
      /\ task[p].pc # "failed")

C38_ErrorTexts ==
  [][\A s \in Slots :
       (ops[s].pc = "rejected" /\ ops'[s] = IdleOp)
         => /\ ~resp'.success
            /\ (ops[s].err = "Error" /\ ops[s].msg = StorageErrorText)
                 => resp'.error = "Failed to save reminder. Please try again."
            /\ ops[s].err = "ValidationError"
                 => resp'.error \in {"Missing required field: payload",
                                     "Missing required field: chatId",
                                     "Missing required field: chatName",
                                     "Missing required field: scheduledTime",
                                     "Invalid chat identifier",
                                     "Scheduled time must be a valid number",
                                     "Reminder time must be in the future"}
            /\ ops[s].err = "PlanLimitError"
                 => resp'.error = PlanLimitMessage(ops[s].seen)
            /\ ops[s].err = "StorageQuotaError"
                 => resp'.error = "Storage is almost full. Please delete some old reminders before creating new ones."
            /\ ops[s].err = "NotFoundError" => resp'.error = "Reminder not found"
            /\ ops[s].err = "AlreadyCompletedError"
                 => resp'.error = "Reminder is already completed"
            /\ ops[s].err \in {"Error", "ValidationError", "PlanLimitError",
                               "StorageQuotaError", "NotFoundError",
                               "AlreadyCompletedError"}]_vars

\* no reminder has ever been stored and no id handed out: the message that
\* failed is a list whose storage read was rejected, answered with the
\* generic text
C38_Witness ==
  /\ nextId = 0
  /\ replies > 0
  /\ ~resp.success
  /\ resp.error = "Failed to save reminder. Please try again."

\* C39: a fired wake-up whose name does not start with reminder- is ignored
\* by the alarm handler: its delivery and the handler's only step change
\* neither the store, the schedule nor the alerts, that step ends the
\* handler, and the handler never gets to read the store or to request an
\* alert for such a name.
C39_OtherAlarmsIgnored ==
  [][\A s \in Slots :
       /\ (ops'[s].kind = "alarm" /\ ~startsWithPrefix(ops'[s].rid))
            => ops'[s].pc = "called"
       /\ ((ops[s].kind = "alarm" \/ ops'[s].kind = "alarm")
             /\ ~startsWithPrefix(IF ops[s].kind = "alarm" THEN ops[s].rid ELSE ops'[s].rid)
             /\ ops'[s] # ops[s])
            => /\ ops[s].kind = "alarm" => ops'[s] = IdleOp
               /\ store' = store /\ persisted' = persisted /\ plan' = plan
               /\ alarms' = alarms
               /\ notifications' = notifications
               /\ badge' = badge]_vars

\* a wake-up of another name has been delivered while the collection holds an
\* overdue pending reminder whose own wake-up has fired and is being handled
C39_Witness ==
  \E s \in Slots : \E t \in Slots :
    /\ ops[s].kind = "alarm" /\ ops[s].pc = "called" /\ ops[s].rid = OtherAlarm
    /\ ops[t].kind = "alarm" /\ ops[t].pc = "notify"
    /\ PendingIn(store, ops[t].rid)

====
